---- MODULE Spec2Model ----
(***************************************************************************)
(* A model of the tree-walking Lox interpreter of crafting-interpreters-rs *)
(* (runner, interpreter, resolver, environment, functions, classes).       *)
(*                                                                         *)
(* Everything in the program is held by value: an Environment owns its     *)
(* enclosing Environment in a Box, a LoxInstance owns its field map, and   *)
(* Clone copies the whole structure.  An Environment is therefore a        *)
(* non-empty sequence of frames (frame 1 is the environment itself, the    *)
(* tail is its `enclosing` chain), and a value is a record that contains   *)
(* whatever it owns.                                                       *)
(***************************************************************************)
EXTENDS Integers, Sequences, FiniteSets, TLC

(***************************************************************************)
(* Bounds of the model.                                                    *)
(***************************************************************************)
MaxStmts == 3
MaxLines == 2
MaxSteps == 4
MaxEvents == 5
MaxDepth == 2
MaxOpen == 3
MaxSource == 3
MaxTokens == 2
\* entries of a parameter or argument list go up to ParamLimit + MaxOver
MaxOver == 1
\* tokens that follow the declaration or call under the rule machine
MaxTail == 1

VARIABLES
  \* --- runner.rs / interpreter.rs: the driver ---------------------------
  mode,            \* "file" (run_file) or "prompt" (run_prompt)
  run_pc,          \* position inside run / interpret / run_file
  HAD_ERROR,       \* runner.rs: static HAD_ERROR
  HAD_RUNTIMES,    \* runner.rs: static HAD_RUNTIMES
  statements,      \* the Vec<Stmt> handed to Interpreter::interpret
  stmt_index,      \* the position of the `for stmt in statements` loop
  executed,        \* indices of the statements given to evaluator.execute
  runtime_errors,  \* indices of the statements reported by runtime_error
  interpreter,     \* the Interpreter that run creates
  exit_code,       \* -1 while the process runs
  lines_read       \* number of lines run_prompt has read

driverVars == <<mode, run_pc, HAD_ERROR, HAD_RUNTIMES, statements, stmt_index,
                executed, runtime_errors, interpreter, exit_code, lines_read>>

VARIABLES
  \* --- the evaluator running a program on functions and instances --------
  environment,     \* Evaluator.environment, the top-level environment
  origin,          \* binding -> the call of makeCounter / of a class that
                   \* created the function / instance it holds (0: none)
  ncalls,          \* creation -> calls made so far of its counter function
  last,            \* the statement executed last, with its result
  next_id          \* the number of the next creation

runtimeVars == <<environment, origin, ncalls, last, next_id>>

VARIABLES
  \* --- the resolver visiting a program, and the evaluator running it ------
  resolver,        \* the Resolver, with the side table it fills
  prog,            \* the statements visited so far, blocks flattened
  res_pc,          \* "resolve", "execute", "done" or "panicked"
  exec_index,      \* the statement of prog the evaluator executes next
  evaluator_env    \* Evaluator.environment while prog is executed

resolverVars == <<resolver, prog, res_pc, exec_index, evaluator_env>>

VARIABLES
  \* --- lexer.rs / parser.rs ----------------------------------------------
  scanner,         \* the Scanner, with the diagnostics it has reported
  parser           \* the Parser, with what it has parsed and reported

frontVars == <<scanner, parser>>

vars == <<driverVars, runtimeVars, resolverVars, frontVars>>

\* what the actions of one component leave alone
notDriver == <<runtimeVars, resolverVars, frontVars>>

notRuntime == <<driverVars, resolverVars, frontVars>>

notResolver == <<driverVars, runtimeVars, frontVars>>

notScanner == <<driverVars, runtimeVars, resolverVars, parser>>

notParser == <<driverVars, runtimeVars, resolverVars, scanner>>

(***************************************************************************)
(* Results.  Rust's Result<T, RuntimeError>, with a panic as a third       *)
(* outcome.                                                                *)
(***************************************************************************)
Ok(v) == [st |-> "ok", v |-> v]

Err(msg) == [st |-> "err", msg |-> msg]

Panic(msg) == [st |-> "panic", msg |-> msg]

Nil == [t |-> "nil"]

Number(n) == [t |-> "num", n |-> n]

String(s) == [t |-> "str", s |-> s]

\* RuntimeError::Return(value), the signal of a `return` statement
Return(v) == [st |-> "err", msg |-> "Return", v |-> v]

(***************************************************************************)
(* environment.rs                                                          *)
(***************************************************************************)
EmptyFrame == [n \in {} |-> Nil]

\* HashMap::insert
Insert(f, k, v) == [n \in DOMAIN f \cup {k} |-> IF n = k THEN v ELSE f[n]]

new_global == <<EmptyFrame>>

new_enclosed(enclosing) == <<EmptyFrame>> \o enclosing

define(env, name, value) == [env EXCEPT ![1] = Insert(env[1], name, value)]

\* format!("Undefined variable '{}'.", name)
UndefinedVariable(name) == <<"Undefined variable '", name, "'.">>

\* get that looks in the current frame only
get_no_enclosing(env, name) ==
  IF name \in DOMAIN env[1] THEN Ok(env[1][name])
  ELSE Err(UndefinedVariable(name))

RECURSIVE get(_, _)
get(env, name) ==
  IF name \in DOMAIN env[1] THEN Ok(env[1][name])
  ELSE IF Len(env) > 1 THEN get(Tail(env), name)
  ELSE Err(UndefinedVariable(name))

\* The result is Ok(the environment after the assignment) or Err.
RECURSIVE assign(_, _, _)
assign(env, name, value) ==
  IF name \in DOMAIN env[1] THEN Ok([env EXCEPT ![1] = Insert(env[1], name, value)])
  ELSE IF Len(env) > 1
    THEN LET r == assign(Tail(env), name, value)
         IN IF r.st = "ok" THEN Ok(<<env[1]>> \o r.v) ELSE r
  ELSE Err(UndefinedVariable(name))

\* ancestor / ancestor_mut: the index of the frame `distance` hops away, or 0
\* when the chain is too short (the code panics).
ancestor(env, distance) == IF distance < Len(env) THEN distance + 1 ELSE 0

\* get_at that goes on to the farther frames when the frame lacks the name
get_at_fallback(env, distance, name) ==
  IF ancestor(env, distance) = 0 THEN Panic("Ancestor not found, should not happen")
  ELSE get(SubSeq(env, ancestor(env, distance), Len(env)), name)

get_at(env, distance, name) ==
  LET a == ancestor(env, distance)
  IN IF a = 0 THEN Panic("Ancestor not found, should not happen")
     ELSE IF name \in DOMAIN env[a] THEN Ok(env[a][name])
     ELSE Err(UndefinedVariable(name))

assign_at(env, distance, name, value) ==
  LET a == ancestor(env, distance)
  IN IF a = 0 THEN Panic("Ancestor not found, should not happen")
     ELSE Ok([env EXCEPT ![a] = Insert(env[a], name, value)])

(***************************************************************************)
(* Syntax tree (parser.rs builds it; the resolver and interpreter key the  *)
(* side table `locals: HashMap<Expr, usize>` by the structure of an Expr). *)
(* A Token is its lexeme and its line.                                     *)
(***************************************************************************)
None == [kind |-> "None"]

Token(lexeme, line) == [lexeme |-> lexeme, line |-> line]

Literal(value) == [kind |-> "Literal", value |-> value]

\* parser.rs primary: the only place that builds a Variable sets initializer: None
Variable(name) == [kind |-> "Variable", name |-> name, initializer |-> None]

Assign(name, value) == [kind |-> "Assign", name |-> name, value |-> value]

This(keyword) == [kind |-> "This", keyword |-> keyword]

Super(keyword, method) == [kind |-> "Super", keyword |-> keyword, method |-> method]

Unary(operator, right) == [kind |-> "Unary", operator |-> operator, right |-> right]

(***************************************************************************)
(* resolver.rs.  The state of a Resolver: its own fields, the side table   *)
(* of the Interpreter it borrows (`locals`), the messages it has given to  *)
(* error() (`diagnostics`) and how the running visit has ended (`st`:      *)
(* "ok", "err" for a returned Err, "panic").                               *)
(***************************************************************************)
EmptyScope == [n \in {} |-> FALSE]

EmptyLocals == [e \in {} |-> 0]

Resolver_new ==
  [scopes |-> <<>>, current_function |-> "None", current_class |-> "None",
   locals |-> EmptyLocals, diagnostics |-> <<>>, st |-> "ok"]

\* utils error(line, message): the diagnostic sink
error(R, message) == [R EXCEPT !.diagnostics = Append(@, message)]

begin_scope(R) == [R EXCEPT !.scopes = Append(@, EmptyScope)]

\* Vec::pop: nothing happens on an empty stack
end_scope(R) ==
  [R EXCEPT !.scopes = IF @ = <<>> THEN @ ELSE SubSeq(@, 1, Len(@) - 1)]

declare(R, name) ==
  IF R.scopes = <<>> THEN R
  ELSE [R EXCEPT !.scopes[Len(R.scopes)] = Insert(@, name, FALSE)]

resolver_define(R, name) ==
  IF R.scopes = <<>> THEN R
  ELSE [R EXCEPT !.scopes[Len(R.scopes)] = Insert(@, name, TRUE)]

\* Interpreter::resolve
resolve(locals, expr, depth) == Insert(locals, expr, depth)

resolve_local(R, expr, name) ==
  LET found == {i \in 1..Len(R.scopes) : name.lexeme \in DOMAIN R.scopes[i]}
  IN IF found = {} THEN R
     ELSE LET i == CHOOSE j \in found : \A k \in found : k <= j
          IN [R EXCEPT !.locals = resolve(@, expr, Len(R.scopes) - i)]

visit_this_expr(R, this) ==
  LET R1 == IF R.current_class = "None"
              THEN error(R, "Can't use 'this' outside of a class.")
              ELSE R
  IN resolve_local(R1, This(this), this)

visit_super_expr(R, keyword, method) ==
  LET dummy_expr == Literal(Nil)
      R1 == IF R.current_class = "None"
              THEN error(R, "Can't use 'super' outside of a class.")
            ELSE IF R.current_class # "Subclass"
              THEN error(R, "Can't use 'super' in a class with no superclass.")
            ELSE R
  IN resolve_local(R1, dummy_expr, keyword)

RECURSIVE resolve_expr(_, _)
visit_variable_expr(R, token, initializer) ==
  IF R.scopes = <<>>
    THEN [R EXCEPT !.st = "panic"]      \* self.scopes.last().unwrap()
  ELSE IF /\ token.lexeme \in DOMAIN R.scopes[Len(R.scopes)]
          /\ ~R.scopes[Len(R.scopes)][token.lexeme]
    THEN [R EXCEPT !.st = "err"]        \* Err("Can't read local variable ...")
  ELSE IF initializer # None
    THEN resolve_expr(resolve_local(R, initializer, token), initializer)
  ELSE R

visit_assign_expr(R, token, value) ==
  LET R1 == resolve_expr(R, value)
  IN IF R1.st # "ok" THEN R1 ELSE resolve_local(R1, value, token)

resolve_expr(R, expr) ==
  CASE expr.kind = "Literal"  -> R
    [] expr.kind = "Variable" -> visit_variable_expr(R, expr.name, expr.initializer)
    [] expr.kind = "Assign"   -> visit_assign_expr(R, expr.name, expr.value)
    [] expr.kind = "This"     -> visit_this_expr(R, expr.keyword)
    [] expr.kind = "Super"    -> visit_super_expr(R, expr.keyword, expr.method)
    [] expr.kind = "Unary"    -> resolve_expr(R, expr.right)

visit_expression_stmt(R, expression) == resolve_expr(R, expression)

visit_print_stmt(R, expression) == resolve_expr(R, expression)

visit_var_stmt(R, name, initializer) ==
  LET R1 == declare(R, name.lexeme)
      R2 == IF initializer # None THEN resolve_expr(R1, initializer) ELSE R1
  IN IF R2.st # "ok" THEN R2 ELSE resolver_define(R2, name.lexeme)

visit_return_stmt(R, keyword, value) ==
  IF value # None
    THEN LET R1 == IF R.current_function = "Initializer"
                     THEN error(R, "Can't return a value from an initializer.")
                     ELSE R
         IN resolve_expr(R1, value)
    ELSE R

\* stmt.accept(self).expect(..): a returned Err becomes a panic
resolve_stmt_single(R) == IF R.st = "err" THEN [R EXCEPT !.st = "panic"] ELSE R

(***************************************************************************)
(* interpreter.rs                                                          *)
(***************************************************************************)
ClockFn == [t |-> "native", name |-> "clock"]

Interpreter_new ==
  LET globals == define(new_global, "clock", ClockFn)
  IN [globals |-> globals, env |-> globals, locals |-> EmptyLocals]

lookup_variable(interp, name, expr) ==
  IF expr \in DOMAIN interp.locals
    THEN get_at(interp.env, interp.locals[expr], name.lexeme)
    ELSE get(interp.globals, name.lexeme)

\* interpret_loop_step without the `break`
interpret_loop_step_no_break(i, n, result) == i + 1

\* The `for stmt in statements` loop of interpret: the index of the next
\* statement after statement i of n gave `result` (n + 1 ends the loop).
interpret_loop_step(i, n, result) == IF result.st = "err" THEN n + 1 ELSE i + 1

(***************************************************************************)
(* The top-level statements the driver is run on: `print 1;`,              *)
(* `print -"a";`, `return;`, `this;` and `a;`, statement i on line i.      *)
(***************************************************************************)
StmtKinds == {"Print", "TypeError", "Return", "This", "Variable"}

Stmt(kind, line) ==
  CASE kind = "Print" ->
         [kind |-> "Print", expression |-> Literal(Number(1))]
    [] kind = "TypeError" ->
         [kind |-> "Print", expression |-> Unary(Token("-", line), Literal(String("a")))]
    [] kind = "Return" ->
         [kind |-> "Return", keyword |-> Token("return", line), value |-> None]
    [] kind = "This" ->
         [kind |-> "Expression", expression |-> This(Token("this", line))]
    [] kind = "Variable" ->
         [kind |-> "Expression", expression |-> Variable(Token("a", line))]

Programs ==
  UNION {[1..n -> StmtKinds] : n \in 0..MaxStmts}

Program(kinds) == [i \in 1..Len(kinds) |-> Stmt(kinds[i], i)]

\* Stmt::accept for the statements above
accept(R, stmt) ==
  CASE stmt.kind = "Print"      -> visit_print_stmt(R, stmt.expression)
    [] stmt.kind = "Expression" -> visit_expression_stmt(R, stmt.expression)
    [] stmt.kind = "Return"     -> visit_return_stmt(R, stmt.keyword, stmt.value)

\* Resolver::resolve_stmt: every statement in turn; a panic ends the process
RECURSIVE resolve_stmt(_, _)
resolve_stmt(R, stmts) ==
  IF stmts = <<>> \/ R.st = "panic" THEN R
  ELSE resolve_stmt(resolve_stmt_single(accept(R, Head(stmts))), Tail(stmts))

(***************************************************************************)
(* The evaluator (evaluator.rs is not among the sources): the statements   *)
(* above as section 4.5 of the specification evaluates them.               *)
(***************************************************************************)
RECURSIVE evaluate(_, _)
evaluate(interp, expr) ==
  CASE expr.kind = "Literal"  -> Ok(expr.value)
    [] expr.kind = "Variable" -> lookup_variable(interp, expr.name, expr)
    [] expr.kind = "This"     -> lookup_variable(interp, expr.keyword, expr)
    [] expr.kind = "Unary"    ->
         LET right == evaluate(interp, expr.right)
         IN IF right.st # "ok" THEN right
            ELSE IF right.v.t = "num" THEN Ok(Number(0 - right.v.n))
            ELSE Err("Operand must be a number.")

execute(interp, stmt) ==
  CASE stmt.kind = "Print"      -> evaluate(interp, stmt.expression)
    [] stmt.kind = "Expression" -> evaluate(interp, stmt.expression)
    [] stmt.kind = "Return"     -> Return(stmt.value)

(***************************************************************************)
(* runner.rs: run_file, run_prompt, run; Interpreter::interpret            *)
(***************************************************************************)
DriverInit ==
  /\ mode \in {"file", "prompt"}
  /\ run_pc = "read"
  /\ HAD_ERROR = FALSE
  /\ HAD_RUNTIMES = FALSE
  /\ statements = <<>>
  /\ stmt_index = 1
  /\ executed = <<>>
  /\ runtime_errors = <<>>
  /\ interpreter = Interpreter_new
  /\ exit_code = -1
  /\ lines_read = 0
  \* the other components are not running
  /\ environment = <<>>
  /\ origin = <<>>
  /\ ncalls = <<>>
  /\ last = <<>>
  /\ next_id = 0
  /\ resolver = <<>>
  /\ prog = <<>>
  /\ res_pc = "idle"
  /\ exec_index = 0
  /\ evaluator_env = <<>>
  /\ scanner = <<>>
  /\ parser = <<>>

\* run_file reads the file, run_prompt reads one more line; run is entered
ReadSource ==
  /\ run_pc = "read"
  /\ lines_read < (IF mode = "file" THEN 1 ELSE MaxLines)
  /\ lines_read' = lines_read + 1
  /\ run_pc' = "scan"
  /\ statements' = <<>>
  /\ stmt_index' = 1
  /\ executed' = <<>>
  /\ runtime_errors' = <<>>
  /\ UNCHANGED <<mode, HAD_ERROR, HAD_RUNTIMES, interpreter, exit_code>>

\* run_prompt: bytes_read == 0, the loop breaks and the process ends
ReadEof ==
  /\ run_pc = "read"
  /\ mode = "prompt"
  /\ run_pc' = "exited"
  /\ exit_code' = 0
  /\ UNCHANGED <<mode, HAD_ERROR, HAD_RUNTIMES, statements, stmt_index,
                 executed, runtime_errors, interpreter, lines_read>>

\* run: scanner.scan_tokens(); the scanner may have called error()
ScanTokens ==
  /\ run_pc = "scan"
  /\ \E reported \in BOOLEAN : HAD_ERROR' = (HAD_ERROR \/ reported)
  /\ run_pc' = "parse"
  /\ UNCHANGED <<mode, HAD_RUNTIMES, statements, stmt_index, executed,
                 runtime_errors, interpreter, exit_code, lines_read>>

\* run: parser.parse(); the parser may have reported; Interpreter::new()
Parse ==
  /\ run_pc = "parse"
  /\ \E reported \in BOOLEAN : HAD_ERROR' = (HAD_ERROR \/ reported)
  /\ \E kinds \in Programs : statements' = Program(kinds)
  /\ interpreter' = Interpreter_new
  /\ run_pc' = "resolve"
  /\ UNCHANGED <<mode, HAD_RUNTIMES, stmt_index, executed, runtime_errors,
                 exit_code, lines_read>>

\* interpret: resolver.resolve_stmt(&statements); Evaluator::new(..)
InterpretResolve ==
  /\ run_pc = "resolve"
  /\ LET R == resolve_stmt(Resolver_new, statements)
     IN /\ HAD_ERROR' = (HAD_ERROR \/ R.diagnostics # <<>>)
        /\ interpreter' = [interpreter EXCEPT !.locals = R.locals]
        /\ IF R.st = "panic"
             THEN run_pc' = "panicked" /\ exit_code' = 101
             ELSE run_pc' = "execute" /\ exit_code' = exit_code
  /\ UNCHANGED <<mode, HAD_RUNTIMES, statements, stmt_index, executed,
                 runtime_errors, lines_read>>

\* interpret: one turn of `for stmt in statements`
InterpretExecute ==
  /\ run_pc = "execute"
  /\ stmt_index <= Len(statements)
  /\ LET result == execute(interpreter, statements[stmt_index])
     IN /\ executed' = Append(executed, stmt_index)
        /\ runtime_errors' = IF result.st = "err"
                               THEN Append(runtime_errors, [stmt |-> stmt_index, msg |-> result.msg])
                               ELSE runtime_errors
        /\ HAD_RUNTIMES' = (HAD_RUNTIMES \/ result.st = "err")
        /\ stmt_index' = interpret_loop_step(stmt_index, Len(statements), result)
  /\ UNCHANGED <<mode, run_pc, HAD_ERROR, statements, interpreter, exit_code,
                 lines_read>>

\* interpret and run return
InterpretReturn ==
  /\ run_pc = "execute"
  /\ stmt_index > Len(statements)
  /\ run_pc' = "ran"
  /\ UNCHANGED <<mode, HAD_ERROR, HAD_RUNTIMES, statements, stmt_index,
                 executed, runtime_errors, interpreter, exit_code, lines_read>>

\* run_file after run: exit(65), exit(70) or the normal end of the process
RunFileExit ==
  /\ run_pc = "ran"
  /\ mode = "file"
  /\ exit_code' = IF HAD_ERROR THEN 65 ELSE IF HAD_RUNTIMES THEN 70 ELSE 0
  /\ run_pc' = "exited"
  /\ UNCHANGED <<mode, HAD_ERROR, HAD_RUNTIMES, statements, stmt_index,
                 executed, runtime_errors, interpreter, lines_read>>

\* run_prompt after run: HAD_ERROR.store(false) and the next turn of the loop
RunPromptNext ==
  /\ run_pc = "ran"
  /\ mode = "prompt"
  /\ HAD_ERROR' = FALSE
  /\ run_pc' = "read"
  /\ UNCHANGED <<mode, HAD_RUNTIMES, statements, stmt_index, executed,
                 runtime_errors, interpreter, exit_code, lines_read>>

DriverNext ==
  \/ ReadSource /\ UNCHANGED notDriver
  \/ ReadEof /\ UNCHANGED notDriver
  \/ ScanTokens /\ UNCHANGED notDriver
  \/ Parse /\ UNCHANGED notDriver
  \/ InterpretResolve /\ UNCHANGED notDriver
  \/ InterpretExecute /\ UNCHANGED notDriver
  \/ InterpretReturn /\ UNCHANGED notDriver
  \/ RunFileExit /\ UNCHANGED notDriver
  \/ RunPromptNext /\ UNCHANGED notDriver

SpecDriver == DriverInit /\ [][DriverNext]_vars

(***************************************************************************)
(* Claims about the driver                                                 *)
(***************************************************************************)

\* C6: if scanning, parsing or resolving reported an error (HAD_ERROR is set),
\* the evaluator has executed no statement of the program, and a process that
\* exits with 65 has evaluated nothing.
C6_NoExecutionAfterCompileError ==
  /\ HAD_ERROR => executed = <<>>
  /\ exit_code = 65 => executed = <<>>

\* C7: in a program the resolver accepts (no diagnostic, no panic), no Return
\* signal reaches the loop of interpret and is reported as a runtime error.
C7_ReturnNeverReachesTopLevel ==
  LET R == resolve_stmt(Resolver_new, statements)
  IN (R.st = "ok" /\ R.diagnostics = <<>>) =>
       \A k \in 1..Len(runtime_errors) : runtime_errors[k].msg # "Return"

\* C8: the statements are executed in source order; a statement whose
\* execution raises a runtime error is reported once, it is the last statement
\* executed and the loop is over.
C8_RuntimeErrorStopsInterpret ==
  /\ executed = [k \in 1..Len(executed) |-> k]
  /\ Len(runtime_errors) <= 1
  /\ \A k \in 1..Len(executed) :
       execute(interpreter, statements[k]).st = "err" =>
         /\ k = Len(executed)
         /\ Len(runtime_errors) = 1
         /\ runtime_errors[1].stmt = k
         /\ stmt_index > Len(statements)
  /\ runtime_errors # <<>> =>
       execute(interpreter, statements[runtime_errors[1].stmt]).st = "err"

\* C8 witness: statement 2 of 3 raised, statement 3 was never executed and
\* interpret has returned.
C8_Witness ==
  /\ run_pc = "ran"
  /\ Len(statements) = 3
  /\ executed = <<1, 2>>
  /\ Len(runtime_errors) = 1
  /\ runtime_errors[1].stmt = 2

(***************************************************************************)
(* function.rs and class.rs, and the part of the evaluator they run on.    *)
(*                                                                         *)
(* A function body is a list of statements in which every variable carries *)
(* the distance section 4.3 of the specification resolves it to:           *)
(*   Var(name, n)           var name = n;                                  *)
(*   Function(decl)         fun decl(..) {..}                              *)
(*   AssignAdd(name, d, n)  name = name + n;                               *)
(*   Call(name, d)          name();                                        *)
(*   SetThis(field, param)  this.field = param;                            *)
(*   Return(None)           return;                                        *)
(*   Return(<<name, d>>)    return name;                                   *)
(***************************************************************************)
StmtVar(name, n) == [op |-> "Var", name |-> name, n |-> n]

StmtFunction(decl) == [op |-> "Function", name |-> decl]

StmtAssignAdd(name, d, n) == [op |-> "AssignAdd", name |-> name, distance |-> d, n |-> n]

StmtCall(name, d) == [op |-> "Call", name |-> name, distance |-> d]

StmtSetThis(field, param) == [op |-> "SetThis", field |-> field, param |-> param]

StmtReturn(value) == [op |-> "Return", value |-> value]

\* The function declarations (Stmt::Function) of the programs that are run:
\*   fun makeCounter() { var i = 0; fun count() {..} fun bump() {..} return count; }
\*   fun makeBumper()  { var i = 0; fun count() {..} fun bump() {..} return bump; }
\*   fun count() { i = i + 1; return i; }
\*   fun bump()  { count(); return i; }
\*   init(v) { this.x = v; return; this.x = v; }    (class Foo)
\*   init(v) { this.x = v; }                        (class Baz)
\*   setX(v) { this.x = v; }
Declaration(name) ==
  CASE name = "makeCounter" ->
         [params |-> <<>>,
          body |-> <<StmtVar("i", 0), StmtFunction("count"), StmtFunction("bump"),
                     StmtReturn(<<"count", 0>>)>>]
    [] name = "makeBumper" ->
         [params |-> <<>>,
          body |-> <<StmtVar("i", 0), StmtFunction("count"), StmtFunction("bump"),
                     StmtReturn(<<"bump", 0>>)>>]
    [] name = "count" ->
         [params |-> <<>>,
          body |-> <<StmtAssignAdd("i", 1, 1), StmtReturn(<<"i", 1>>)>>]
    [] name = "bump" ->
         [params |-> <<>>,
          body |-> <<StmtCall("count", 1), StmtReturn(<<"i", 1>>)>>]
    [] name = "init_return" ->
         [params |-> <<"v">>,
          body |-> <<StmtSetThis("x", "v"), StmtReturn(None), StmtSetThis("y", "v")>>]
    [] name = "init" ->
         [params |-> <<"v">>, body |-> <<StmtSetThis("x", "v")>>]
    [] name = "setX" ->
         [params |-> <<"v">>, body |-> <<StmtSetThis("x", "v")>>]

\* LoxFunction::new
LoxFunction_new(decl, closure) == [t |-> "fn", declaration |-> decl, closure |-> closure]

\* LoxFunction::bind (not in function.rs): section 4.5, a new function whose
\* closure extends the original with one frame defining `this`
bind(method, instance) ==
  [method EXCEPT !.closure = define(new_enclosed(method.closure), "this", instance)]

\* LoxInstance::new
LoxInstance_new(klass) == [t |-> "inst", klass |-> klass, fields |-> EmptyFrame]

\* LoxInstance::set
LoxInstance_set(instance, name, value) ==
  [instance EXCEPT !.fields = Insert(@, name, value)]

\* LoxClass::new
LoxClass_new(name, methods, superclass) ==
  [t |-> "class", name |-> name, methods |-> methods, superclass |-> superclass]

\* format!("Undefined property '{}'.", name.lexeme)
UndefinedProperty(name) == <<"Undefined property '", name, "'.">>

\* find_method that looks in the class's own methods only
find_method_own(klass, name) ==
  IF name \in DOMAIN klass.methods THEN klass.methods[name] ELSE None

RECURSIVE find_method(_, _)
find_method(klass, name) ==
  IF name \in DOMAIN klass.methods THEN klass.methods[name]
  ELSE IF klass.superclass # None THEN find_method(klass.superclass, name)
  ELSE None

\* LoxInstance::get
LoxInstance_get(instance, name) ==
  IF name \in DOMAIN instance.fields THEN Ok(instance.fields[name])
  ELSE LET method == find_method(instance.klass, name)
       IN IF method # None THEN Ok(bind(method, instance))
          ELSE Err(UndefinedProperty(name))

\* for (tok, arg) in params.iter().zip(arguments.drain(..)) { env.define(..) }
RECURSIVE bind_params(_, _, _)
bind_params(env, params, arguments) ==
  IF params = <<>> \/ arguments = <<>> THEN env
  ELSE bind_params(define(env, Head(params), Head(arguments)),
                   Tail(params), Tail(arguments))

RECURSIVE execute_block(_, _)
RECURSIVE execute_stmt(_, _)
RECURSIVE LoxFunction_call(_, _)
\* LoxFunction::call
LoxFunction_call(function, arguments) ==
  LET decl == Declaration(function.declaration)
      closure == function.closure                \* (*self.closure).clone()
      env == bind_params(new_enclosed(closure), decl.params, arguments)
      r == execute_block(decl.body, env)
  IN IF r.st = "ok" THEN Ok(Nil)
     ELSE IF r.st = "err" /\ r.msg = "Return"
       THEN Ok(IF r.v = None THEN Nil ELSE r.v)
     ELSE [st |-> r.st, msg |-> r.msg]

\* LoxClass::call
LoxClass_call(klass, arguments) ==
  LET instance == LoxInstance_new(klass)
      init_method == find_method(klass, "init")
      r == IF init_method # None
             THEN LoxFunction_call(bind(init_method, instance), arguments)
             ELSE Ok(Nil)
  IN IF r.st # "ok" THEN r ELSE Ok(instance)

\* The evaluator on one statement of a body, in environment env: the outcome
\* and the environment afterwards.
Done(env) == [st |-> "ok", v |-> Nil, env |-> env]

Raise(r, env) == [st |-> r.st, msg |-> r.msg, v |-> None, env |-> env]

execute_stmt(stmt, env) ==
  CASE stmt.op = "Var" -> Done(define(env, stmt.name, Number(stmt.n)))
    [] stmt.op = "Function" ->
         Done(define(env, stmt.name, LoxFunction_new(stmt.name, env)))
    [] stmt.op = "AssignAdd" ->
         LET old == get_at(env, stmt.distance, stmt.name)
         IN IF old.st # "ok" THEN Raise(old, env)
            ELSE Done(assign_at(env, stmt.distance, stmt.name,
                                Number(old.v.n + stmt.n)).v)
    [] stmt.op = "Call" ->
         LET callee == get_at(env, stmt.distance, stmt.name)
         IN IF callee.st # "ok" THEN Raise(callee, env)
            ELSE LET r == LoxFunction_call(callee.v, <<>>)
                 IN IF r.st # "ok" THEN Raise(r, env) ELSE Done(env)
    [] stmt.op = "SetThis" ->
         LET this == get_at(env, 1, "this")
             value == get_at(env, 0, stmt.param)
         IN IF this.st # "ok" THEN Raise(this, env)
            ELSE IF value.st # "ok" THEN Raise(value, env)
            ELSE Done(assign_at(env, 1, "this",
                                LoxInstance_set(this.v, stmt.field, value.v)).v)
    [] stmt.op = "Return" ->
         IF stmt.value = None
           THEN [st |-> "err", msg |-> "Return", v |-> None, env |-> env]
           ELSE LET value == get_at(env, stmt.value[2], stmt.value[1])
                IN IF value.st # "ok" THEN Raise(value, env)
                   ELSE [st |-> "err", msg |-> "Return", v |-> value.v, env |-> env]

execute_block(body, env) ==
  IF body = <<>> THEN Done(env)
  ELSE LET r == execute_stmt(Head(body), env)
       IN IF r.st # "ok" THEN r ELSE execute_block(Tail(body), r.env)

(***************************************************************************)
(* The evaluator executing top-level statements that create and use        *)
(* closures and instances.  The statements are                             *)
(*   var b = makeCounter();   var b = makeBumper();   b();                 *)
(*   var b = Class(v);   var b1 = b2;   b.x = v;   b.setX(v);   b.init(v); *)
(* for b in Bindings and v in Values.                                      *)
(***************************************************************************)
Bindings == {"a", "b"}

Values == {1, 2}

Makers == {"makeCounter", "makeBumper"}

ClassNames == {"Foo", "Baz", "Sub", "Plain"}

\* The environment in which the functions and classes are declared
DeclEnv == Interpreter_new.globals

Method(decl) == LoxFunction_new(decl, DeclEnv)

\*   class Foo   { init(v) { this.x = v; return; this.y = v; } setX(v) {..} }
\*   class Baz   { init(v) { this.x = v; } setX(v) {..} }
\*   class Sub < Baz { }
\*   class Plain { setX(v) {..} }
Class(name) ==
  CASE name = "Foo" ->
         LoxClass_new("Foo", [m \in {"init", "setX"} |->
                        IF m = "init" THEN Method("init_return") ELSE Method("setX")], None)
    [] name = "Baz" ->
         LoxClass_new("Baz", [m \in {"init", "setX"} |-> Method(m)], None)
    [] name = "Sub" ->
         LoxClass_new("Sub", [m \in {} |-> Nil],
                      LoxClass_new("Baz", [m \in {"init", "setX"} |-> Method(m)], None))
    [] name = "Plain" ->
         LoxClass_new("Plain", [m \in {"setX"} |-> Method(m)], None)

\* LoxClass::arity
arity(klass) ==
  LET initializer == find_method(klass, "init")
  IN IF initializer # None THEN Len(Declaration(initializer.declaration).params) ELSE 0

Holds(b, t) == b \in DOMAIN environment[1] /\ environment[1][b].t = t

RuntimeInit ==
  /\ environment = Interpreter_new.globals
  /\ origin = [b \in Bindings |-> 0]
  /\ ncalls = [i \in 1..MaxSteps |-> 0]
  /\ last = [op |-> "start"]
  /\ next_id = 1
  \* the other components are not running
  /\ mode = "file"
  /\ run_pc = "idle"
  /\ HAD_ERROR = FALSE
  /\ HAD_RUNTIMES = FALSE
  /\ statements = <<>>
  /\ stmt_index = 1
  /\ executed = <<>>
  /\ runtime_errors = <<>>
  /\ interpreter = Interpreter_new
  /\ exit_code = -1
  /\ lines_read = 0
  /\ resolver = <<>>
  /\ prog = <<>>
  /\ res_pc = "idle"
  /\ exec_index = 0
  /\ evaluator_env = <<>>
  /\ scanner = <<>>
  /\ parser = <<>>

\* var b = makeCounter();  /  var b = makeBumper();
VarCall(b, maker) ==
  /\ next_id <= MaxSteps
  /\ LET r == LoxFunction_call(LoxFunction_new(maker, DeclEnv), <<>>)
     IN /\ r.st = "ok"
        /\ environment' = define(environment, b, r.v)
  /\ origin' = [origin EXCEPT ![b] = next_id]
  /\ next_id' = next_id + 1
  /\ last' = [op |-> "var", b |-> b]
  /\ UNCHANGED ncalls

\* b();
CallBinding(b) ==
  /\ next_id <= MaxSteps
  /\ Holds(b, "fn")
  /\ LET r == LoxFunction_call(get(environment, b).v, <<>>)
     IN last' = [op |-> "call", b |-> b, result |-> r]
  /\ ncalls' = [ncalls EXCEPT ![origin[b]] = @ + 1]
  /\ next_id' = next_id + 1
  /\ UNCHANGED <<environment, origin>>

\* var b = Class(v);
VarNew(b, cls, v) ==
  /\ next_id <= MaxSteps
  /\ LET klass == Class(cls)
         r == LoxClass_call(klass, IF arity(klass) = 1 THEN <<Number(v)>> ELSE <<>>)
     IN /\ r.st = "ok"
        /\ environment' = define(environment, b, r.v)
  /\ origin' = [origin EXCEPT ![b] = next_id]
  /\ next_id' = next_id + 1
  /\ last' = [op |-> "new", b |-> b, cls |-> cls, arg |-> v]
  /\ UNCHANGED ncalls

\* var b1 = b2;
VarAlias(b1, b2) ==
  /\ next_id <= MaxSteps
  /\ b1 # b2
  /\ b2 \in DOMAIN environment[1]
  /\ environment' = define(environment, b1, get(environment, b2).v)
  /\ origin' = [origin EXCEPT ![b1] = origin[b2]]
  /\ next_id' = next_id + 1
  /\ last' = [op |-> "alias", b |-> b1]
  /\ UNCHANGED ncalls

\* b.x = v;  the instance that b holds gets the field
SetField(b, v) ==
  /\ next_id <= MaxSteps
  /\ Holds(b, "inst")
  /\ environment' = assign(environment, b,
                           LoxInstance_set(get(environment, b).v, "x", Number(v))).v
  /\ next_id' = next_id + 1
  /\ last' = [op |-> "set", b |-> b, arg |-> v]
  /\ UNCHANGED <<origin, ncalls>>

\* b.m(v);
CallMethod(b, m, v) ==
  /\ next_id <= MaxSteps
  /\ Holds(b, "inst")
  /\ LET method == LoxInstance_get(get(environment, b).v, m)
     IN /\ method.st = "ok"
        /\ last' = [op |-> "method", b |-> b, m |-> m, arg |-> v,
                    result |-> LoxFunction_call(method.v, <<Number(v)>>)]
  /\ next_id' = next_id + 1
  /\ UNCHANGED <<environment, origin, ncalls>>

RuntimeNext ==
  \/ \E b \in Bindings, maker \in Makers :
       VarCall(b, maker) /\ UNCHANGED notRuntime
  \/ \E b \in Bindings :
       CallBinding(b) /\ UNCHANGED notRuntime
  \/ \E b \in Bindings, cls \in ClassNames, v \in Values :
       VarNew(b, cls, v) /\ UNCHANGED notRuntime
  \/ \E b1 \in Bindings, b2 \in Bindings :
       VarAlias(b1, b2) /\ UNCHANGED notRuntime
  \/ \E b \in Bindings, v \in Values :
       SetField(b, v) /\ UNCHANGED notRuntime
  \/ \E b \in Bindings, m \in {"setX", "init"}, v \in Values :
       CallMethod(b, m, v) /\ UNCHANGED notRuntime

SpecRuntime == RuntimeInit /\ [][RuntimeNext]_vars

(***************************************************************************)
(* Claims about closures, classes and instances                            *)
(***************************************************************************)

\* C1: the k-th call of the counter function created by one call of
\* makeCounter (through any binding that holds it, directly or through the
\* sibling bump declared in the same scope) reads the writes of the k-1 calls
\* before it and returns k.
C1_CapturedFrameIsShared ==
  last.op = "call" => last.result = Ok(Number(ncalls[origin[last.b]]))

\* C3: after var b = Class(v) for a class whose chain has an init method, the
\* instance bound to b has the field x that init wrote, with the value v.
C3_InitWritesAreOnTheInstance ==
  (last.op = "new" /\ find_method(Class(last.cls), "init") # None) =>
     LET instance == environment[1][last.b]
     IN /\ "x" \in DOMAIN instance.fields
        /\ instance.fields["x"] = Number(last.arg)

\* C4: two bindings of the same instance have the same fields, and a field
\* written through the `this` of a bound method is read through the binding
\* the method was taken from.
C4_BindingsShareFieldWrites ==
  /\ \A b1 \in Bindings, b2 \in Bindings :
       (Holds(b1, "inst") /\ Holds(b2, "inst") /\ origin[b1] = origin[b2]) =>
          environment[1][b1].fields = environment[1][b2].fields
  /\ (last.op = "method" /\ last.m = "setX") =>
       LoxInstance_get(environment[1][last.b], "x") = Ok(Number(last.arg))

\* C5: a call of a bound init method returns the instance it is bound to,
\* never Nil.
C5_BoundInitReturnsInstance ==
  (last.op = "method" /\ last.m = "init") =>
     /\ last.result.st = "ok"
     /\ last.result.v # Nil
     /\ last.result.v.t = "inst"
     /\ last.result.v.klass = environment[1][last.b].klass

(***************************************************************************)
(* The resolver visiting the statements of a program one after the other,  *)
(* and the evaluator then executing them.  A program is a sequence of      *)
(*   {            Stmt::Block begins: begin_scope / a new environment      *)
(*   }            Stmt::Block ends: end_scope / the environment is restored*)
(*   var n;   var n = m;                                                   *)
(*   n;   n = m;                                                           *)
(* for n, m in Names, statement i on line i.                               *)
(***************************************************************************)
Names == {"a", "x"}

BlockBegin == [ev |-> "BlockBegin"]

BlockEnd == [ev |-> "BlockEnd"]

StmtVarDecl(name, initializer) ==
  [ev |-> "Var", name |-> name, initializer |-> initializer]

StmtExpression(expression) == [ev |-> "Expression", expression |-> expression]

\* the initializers and expressions written on line `line`
Initializers(line) == {None} \cup {Variable(Token(n, line)) : n \in Names}

Expressions(line) ==
  {Variable(Token(n, line)) : n \in Names}
    \cup {Assign(Token(n, line), Variable(Token(m, line))) : n \in Names, m \in Names}

\* The evaluator on an expression statement and on a var statement (section
\* 4.5): the outcome and the environment afterwards.  The last frame of the
\* chain is the global environment.
globals_of(env) == <<env[Len(env)]>>

Interp(env, locals) == [globals |-> globals_of(env), env |-> env, locals |-> locals]

execute_expression(env, locals, expr) ==
  IF expr.kind = "Assign"
    THEN LET value == evaluate(Interp(env, locals), expr.value)
         IN IF value.st # "ok" THEN Raise(value, env)
            ELSE LET r == IF expr \in DOMAIN locals
                            THEN assign_at(env, locals[expr], expr.name.lexeme, value.v)
                            ELSE assign(globals_of(env), expr.name.lexeme, value.v)
                 IN IF r.st # "ok" THEN Raise(r, env)
                    ELSE IF expr \in DOMAIN locals THEN Done(r.v)
                    ELSE Done(SubSeq(env, 1, Len(env) - 1) \o r.v)
    ELSE LET value == evaluate(Interp(env, locals), expr)
         IN IF value.st # "ok" THEN Raise(value, env) ELSE Done(env)

execute_var(env, locals, name, initializer) ==
  LET value == IF initializer = None THEN Ok(Nil)
               ELSE evaluate(Interp(env, locals), initializer)
  IN IF value.st # "ok" THEN Raise(value, env)
     ELSE Done(define(env, name.lexeme, value.v))

ResolverInit ==
  /\ resolver = Resolver_new
  /\ prog = <<>>
  /\ res_pc = "resolve"
  /\ exec_index = 1
  /\ evaluator_env = Interpreter_new.env
  \* the other components are not running
  /\ scanner = <<>>
  /\ parser = <<>>
  /\ mode = "file"
  /\ run_pc = "idle"
  /\ HAD_ERROR = FALSE
  /\ HAD_RUNTIMES = FALSE
  /\ statements = <<>>
  /\ stmt_index = 1
  /\ executed = <<>>
  /\ runtime_errors = <<>>
  /\ interpreter = Interpreter_new
  /\ exit_code = -1
  /\ lines_read = 0
  /\ environment = <<>>
  /\ origin = <<>>
  /\ ncalls = <<>>
  /\ last = <<>>
  /\ next_id = 0

\* the resolver has visited one more statement: a panic ends the process
Visited(R, stmt) ==
  /\ resolver' = R
  /\ prog' = Append(prog, stmt)
  /\ res_pc' = IF R.st = "panic" THEN "panicked" ELSE "resolve"
  /\ UNCHANGED <<exec_index, evaluator_env>>

\* visit_block_stmt: begin_scope
VisitBlockBegin ==
  /\ res_pc = "resolve"
  /\ Len(prog) < MaxEvents
  /\ Len(resolver.scopes) < MaxDepth
  /\ Visited(begin_scope(resolver), BlockBegin)

\* visit_block_stmt: end_scope
VisitBlockEnd ==
  /\ res_pc = "resolve"
  /\ resolver.scopes # <<>>
  /\ Visited(end_scope(resolver), BlockEnd)

VisitVarStmt(name, initializer) ==
  /\ res_pc = "resolve"
  /\ Len(prog) < MaxEvents
  /\ Visited(resolve_stmt_single(visit_var_stmt(resolver, name, initializer)),
             StmtVarDecl(name, initializer))

VisitExpressionStmt(expression) ==
  /\ res_pc = "resolve"
  /\ Len(prog) < MaxEvents
  /\ Visited(resolve_stmt_single(visit_expression_stmt(resolver, expression)),
             StmtExpression(expression))

\* resolve_stmt returns at the end of the program; interpret makes the
\* Evaluator
ResolveReturn ==
  /\ res_pc = "resolve"
  /\ resolver.scopes = <<>>
  /\ res_pc' = "execute"
  /\ UNCHANGED <<resolver, prog, exec_index, evaluator_env>>

\* evaluator.execute on the next statement
ExecuteStmt ==
  /\ res_pc = "execute"
  /\ exec_index <= Len(prog)
  /\ LET stmt == prog[exec_index]
         r == CASE stmt.ev = "BlockBegin" -> Done(new_enclosed(evaluator_env))
                [] stmt.ev = "BlockEnd" -> Done(Tail(evaluator_env))
                [] stmt.ev = "Var" ->
                     execute_var(evaluator_env, resolver.locals, stmt.name,
                                 stmt.initializer)
                [] stmt.ev = "Expression" ->
                     execute_expression(evaluator_env, resolver.locals,
                                        stmt.expression)
     IN /\ evaluator_env' = r.env
        /\ exec_index' = exec_index + 1
        /\ res_pc' = CASE r.st = "ok" -> "execute"
                       [] r.st = "err" -> "done"
                       [] r.st = "panic" -> "panicked"
  /\ UNCHANGED <<resolver, prog>>

\* interpret returns
ExecuteReturn ==
  /\ res_pc = "execute"
  /\ exec_index > Len(prog)
  /\ res_pc' = "done"
  /\ UNCHANGED <<resolver, prog, exec_index, evaluator_env>>

ResolverNext ==
  \/ VisitBlockBegin /\ UNCHANGED notResolver
  \/ VisitBlockEnd /\ UNCHANGED notResolver
  \/ \E n \in Names, initializer \in Initializers(Len(prog) + 1) :
       VisitVarStmt(Token(n, Len(prog) + 1), initializer) /\ UNCHANGED notResolver
  \/ \E expression \in Expressions(Len(prog) + 1) :
       VisitExpressionStmt(expression) /\ UNCHANGED notResolver
  \/ ResolveReturn /\ UNCHANGED notResolver
  \/ ExecuteStmt /\ UNCHANGED notResolver
  \/ ExecuteReturn /\ UNCHANGED notResolver

SpecResolver == ResolverInit /\ [][ResolverNext]_vars

(***************************************************************************)
(* Claims about the resolver                                               *)
(***************************************************************************)

\* the Variable and Assign expressions that executing a statement evaluates
Evaluated(stmt) ==
  CASE stmt.ev = "Var" ->
         IF stmt.initializer = None THEN {} ELSE {stmt.initializer}
    [] stmt.ev = "Expression" ->
         IF stmt.expression.kind = "Assign"
           THEN {stmt.expression, stmt.expression.value}
           ELSE {stmt.expression}
    [] OTHER -> {}

\* C2: when a statement is about to execute, every expression in it that the
\* side table maps to a depth d finds, d hops up the environment chain, an
\* existing frame that holds the name the expression refers to.
C2_ResolvedDepthReachesName ==
  (res_pc = "execute" /\ exec_index <= Len(prog)) =>
     \A expr \in Evaluated(prog[exec_index]) :
        expr \in DOMAIN resolver.locals =>
          LET a == ancestor(evaluator_env, resolver.locals[expr])
          IN /\ a # 0
             /\ expr.name.lexeme \in DOMAIN evaluator_env[a]
             /\ get_at(evaluator_env, resolver.locals[expr], expr.name.lexeme).st = "ok"

AlreadyDeclared == "Already a variable with this name in this scope"

OwnInitializer == "Can't read local variable in its own initializer."

\* C9: visiting `var n` reports AlreadyDeclared when n is already in the
\* innermost local scope, and reports nothing when there is no local scope
\* (global redeclaration) or n is only in an outer scope (shadowing).
C9_DuplicateLocalDeclarationReported ==
  [][(res_pc = "resolve" /\ Len(prog') = Len(prog) + 1
        /\ prog'[Len(prog')].ev = "Var") =>
       LET n == prog'[Len(prog')].name.lexeme
           duplicate == /\ resolver.scopes # <<>>
                        /\ n \in DOMAIN resolver.scopes[Len(resolver.scopes)]
       IN IF duplicate
            THEN resolver'.diagnostics = Append(resolver.diagnostics, AlreadyDeclared)
            ELSE \A k \in 1..Len(resolver'.diagnostics) :
                    resolver'.diagnostics[k] # AlreadyDeclared]_vars

\* the variable reference that visiting a statement resolves (None: none),
\* and the scope stack at the moment it is resolved
Reference(stmt) ==
  CASE stmt.ev = "Var" -> stmt.initializer
    [] stmt.ev = "Expression" ->
         IF stmt.expression.kind = "Assign" THEN stmt.expression.value
         ELSE stmt.expression
    [] OTHER -> None

ScopesAtReference(R, stmt) ==
  IF stmt.ev = "Var" THEN declare(R, stmt.name.lexeme).scopes ELSE R.scopes

\* C10: resolving a reference to n reports OwnInitializer exactly when the
\* innermost local scope holds n as declared and not yet defined; with no
\* local scope (`n;` or `var n = n;` at global scope) it reports nothing, the
\* resolver goes on and the side table has no entry for the reference.
C10_VariableReferenceResolved ==
  [][(res_pc = "resolve" /\ Len(prog') = Len(prog) + 1
        /\ Reference(prog'[Len(prog')]) # None) =>
       LET reference == Reference(prog'[Len(prog')])
           n == reference.name.lexeme
           scopes == ScopesAtReference(resolver, prog'[Len(prog')])
           declared == /\ scopes # <<>>
                       /\ n \in DOMAIN scopes[Len(scopes)]
                       /\ ~scopes[Len(scopes)][n]
       IN /\ scopes = <<>> =>
               /\ resolver'.st = "ok"
               /\ resolver'.diagnostics = resolver.diagnostics
               /\ reference \notin DOMAIN resolver'.locals
          /\ (OwnInitializer \in {resolver'.diagnostics[k] :
                                     k \in 1..Len(resolver'.diagnostics)})
               <=> declared]_vars

(***************************************************************************)
(* The resolver visiting function and class declarations.  A program is a  *)
(* sequence of                                                             *)
(*   fun f() {        class C {        class C < B {        m() {   init() {*)
(*   }                (the end of the innermost open declaration)          *)
(*   {   }            (a block in a body, and its end)                     *)
(*   return;   return 1;   this;   super.m;                                *)
(* `this` and `super` being written on a line of Lines.                    *)
(***************************************************************************)
Lines == 1..MaxLines

ClassDecls == {<<"A", None>>, <<"A", Variable(Token("B", 1))>>,
               <<"A", Variable(Token("A", 1))>>}

MethodNames == {"init", "m"}

FunBegin(name) == [ev |-> "FunBegin", name |-> name]

ClassBegin(name, superclass) ==
  [ev |-> "ClassBegin", name |-> name, superclass |-> superclass]

MethodBegin(name) == [ev |-> "MethodBegin", name |-> name]

DeclEnd == [ev |-> "End"]

StmtReturnValue(keyword, value) == [ev |-> "Return", keyword |-> keyword, value |-> value]

\* the declarations and blocks of p that are still open, outermost first
RECURSIVE Open(_)
Open(p) ==
  IF p = <<>> THEN <<>>
  ELSE LET o == Open(SubSeq(p, 1, Len(p) - 1))
           e == p[Len(p)]
       IN IF e.ev \in {"FunBegin", "ClassBegin", "MethodBegin", "BlockBegin"}
            THEN Append(o, e)
          ELSE IF e.ev \in {"End", "BlockEnd"} THEN SubSeq(o, 1, Len(o) - 1)
          ELSE o

\* a statement can be written here: not directly in a class body
InStatements(p) ==
  IF Open(p) = <<>> THEN TRUE ELSE Open(p)[Len(Open(p))].ev # "ClassBegin"

\* visit_fun_stmt up to resolve_stmt(body) (no parameters)
visit_fun_stmt_begin(R, name) ==
  begin_scope(resolver_define(declare(R, name.lexeme), name.lexeme))

\* resolve_function up to resolve_stmt(body) (no parameters)
resolve_function_begin(R, name, declaration) == begin_scope(R)

\* visit_class_stmt up to the loop over the methods
visit_class_stmt_begin(R, name, superclass) ==
  LET R1 == [R EXCEPT !.current_class = "Class"]
      R2 == resolver_define(declare(R1, name.lexeme), name.lexeme)
      this_scope(Q) ==
        LET Q1 == begin_scope(Q)
        IN [Q1 EXCEPT !.scopes[Len(Q1.scopes)] = Insert(@, "this", TRUE)]
  IN IF superclass = None THEN this_scope(R2)
     ELSE IF name.lexeme = superclass.name.lexeme
       THEN [R2 EXCEPT !.st = "err"]   \* Err("A class cannot inherit from itself.")
     ELSE LET R3 == resolve_expr(R2, superclass)
          IN IF R3.st # "ok" THEN R3
             ELSE LET R4 == resolve_expr([R3 EXCEPT !.current_class = "Subclass"],
                                         superclass)
                      R5 == begin_scope(R4)
                  IN IF R4.st # "ok" THEN [R4 EXCEPT !.st = "panic"]
                     ELSE this_scope([R5 EXCEPT !.scopes[Len(R5.scopes)] =
                                                  Insert(@, "super", TRUE)])

\* visit_class_stmt after the loop over the methods, ending the scope of
\* `this` and leaving that of `super`
visit_class_stmt_end_this(R, superclass) ==
  [end_scope(R) EXCEPT !.current_class = "None"]

\* visit_class_stmt after the loop over the methods
visit_class_stmt_end(R, superclass) ==
  LET R1 == end_scope(R)
      R2 == IF superclass # None THEN end_scope(R1) ELSE R1
  IN [R2 EXCEPT !.current_class = "None"]

VisitFunBegin ==
  /\ res_pc = "resolve"
  /\ Len(prog) < MaxEvents
  /\ Len(Open(prog)) < MaxOpen
  /\ InStatements(prog)
  /\ Visited(visit_fun_stmt_begin(resolver, Token("f", 1)), FunBegin("f"))

VisitClassBegin(name, superclass) ==
  /\ res_pc = "resolve"
  /\ Len(prog) < MaxEvents
  /\ Len(Open(prog)) < MaxOpen
  /\ InStatements(prog)
  /\ Visited(resolve_stmt_single(visit_class_stmt_begin(resolver, Token(name, 1),
                                                        superclass)),
             ClassBegin(name, superclass))

VisitMethodBegin(name) ==
  /\ res_pc = "resolve"
  /\ Len(prog) < MaxEvents
  /\ Len(Open(prog)) < MaxOpen
  /\ ~InStatements(prog)
  /\ Visited(resolve_function_begin(resolver, Token(name, 1),
                                    IF name = "init" THEN "Initializer" ELSE "Method"),
             MethodBegin(name))

\* visit_block_stmt in a body: begin_scope
VisitBodyBlockBegin ==
  /\ Len(Open(prog)) < MaxOpen
  /\ InStatements(prog)
  /\ VisitBlockBegin

\* visit_block_stmt in a body: end_scope
VisitBodyBlockEnd ==
  /\ res_pc = "resolve"
  /\ Open(prog) # <<>>
  /\ Open(prog)[Len(Open(prog))].ev = "BlockBegin"
  /\ Visited(end_scope(resolver), BlockEnd)

\* the end of the innermost open declaration: end_scope of visit_fun_stmt or
\* of resolve_function, or the rest of visit_class_stmt
VisitDeclEnd ==
  /\ res_pc = "resolve"
  /\ Open(prog) # <<>>
  /\ Open(prog)[Len(Open(prog))].ev # "BlockBegin"
  /\ \E decl \in {Open(prog)[Len(Open(prog))]} :
       Visited(IF decl.ev = "ClassBegin"
                 THEN visit_class_stmt_end(resolver, decl.superclass)
                 ELSE end_scope(resolver),
               DeclEnd)

VisitReturnStmt(value) ==
  /\ res_pc = "resolve"
  /\ Len(prog) < MaxEvents
  /\ InStatements(prog)
  /\ Visited(resolve_stmt_single(visit_return_stmt(resolver, Token("return", 1), value)),
             StmtReturnValue(Token("return", 1), value))

VisitKeywordStmt(expression) ==
  /\ res_pc = "resolve"
  /\ Len(prog) < MaxEvents
  /\ InStatements(prog)
  /\ Visited(resolve_stmt_single(visit_expression_stmt(resolver, expression)),
             StmtExpression(expression))

DeclNext ==
  \/ VisitFunBegin /\ UNCHANGED notResolver
  \/ \E d \in ClassDecls : VisitClassBegin(d[1], d[2]) /\ UNCHANGED notResolver
  \/ \E name \in MethodNames : VisitMethodBegin(name) /\ UNCHANGED notResolver
  \/ VisitDeclEnd /\ UNCHANGED notResolver
  \/ VisitBodyBlockBegin /\ UNCHANGED notResolver
  \/ VisitBodyBlockEnd /\ UNCHANGED notResolver
  \/ \E value \in {None, Literal(Number(1))} :
       VisitReturnStmt(value) /\ UNCHANGED notResolver
  \/ \E line \in Lines :
       VisitKeywordStmt(This(Token("this", line))) /\ UNCHANGED notResolver
  \/ \E line \in Lines :
       VisitKeywordStmt(Super(Token("super", line), Token("m", line)))
         /\ UNCHANGED notResolver

SpecResolverDecl == ResolverInit /\ [][DeclNext]_vars

(***************************************************************************)
(* Claims about the resolver: side table, static errors, declarations      *)
(***************************************************************************)

\* the messages a sequence of diagnostics holds
Reported(diagnostics) == {diagnostics[k] : k \in 1..Len(diagnostics)}

\* the statement the resolver has just visited, when a step visits one
VisitsStmt == res_pc = "resolve" /\ Len(prog') = Len(prog) + 1

\* C13: an entry of the side table is never overwritten with another depth
\* by the visit of a later expression occurrence.
C13_SideTableEntriesAreKept ==
  [][\A expr \in DOMAIN resolver.locals :
        /\ expr \in DOMAIN resolver'.locals
        /\ resolver'.locals[expr] = resolver.locals[expr]]_vars

\* C14: visiting `var n = n;` in a local scope, a static error, reports the
\* error and the resolver goes on with the next statement: no panic.
C14_StaticErrorIsReportedAndPassGoesOn ==
  [][(VisitsStmt /\ prog'[Len(prog')].ev = "Var"
        /\ resolver.scopes # <<>>
        /\ prog'[Len(prog')].initializer # None
        /\ prog'[Len(prog')].initializer.name.lexeme = prog'[Len(prog')].name.lexeme) =>
       /\ res_pc' = "resolve"
       /\ resolver'.st = "ok"
       /\ OwnInitializer \in Reported(resolver'.diagnostics)]_vars

\* the scopes that hold a name, by index
Found(scopes, name) == {i \in 1..Len(scopes) : name \in DOMAIN scopes[i]}

\* C16: when a statement has been resolved, every Variable and Assign
\* expression in it whose name is in some scope has an entry keyed by the
\* expression itself, with the distance from the innermost scope to the
\* nearest scope holding the name; one whose name is in no scope has none.
C16_EveryLocalReferenceIsRecorded ==
  [][(VisitsStmt /\ resolver'.st = "ok") =>
       \A expr \in Evaluated(prog'[Len(prog')]) :
          LET scopes == ScopesAtReference(resolver, prog'[Len(prog')])
              found == Found(scopes, expr.name.lexeme)
          IN IF found = {} THEN expr \notin DOMAIN resolver'.locals
             ELSE /\ expr \in DOMAIN resolver'.locals
                  /\ \E i \in found :
                       /\ \A j \in found : j <= i
                       /\ resolver'.locals[expr] = Len(scopes) - i]_vars

TopLevelReturn == "Can't return from top-level code."

ReturnFromInitializer == "Can't return a value from an initializer."

\* the open function or method declarations of p, by index in Open(p)
OpenFunctions(p) ==
  {i \in 1..Len(Open(p)) : Open(p)[i].ev \in {"FunBegin", "MethodBegin"}}

\* C17: a `return` outside every function and method body is reported with
\* TopLevelReturn, and a `return` inside one is not.
C17_TopLevelReturnReported ==
  [][(VisitsStmt /\ prog'[Len(prog')].ev = "Return") =>
       IF OpenFunctions(prog) = {}
         THEN TopLevelReturn \in Reported(resolver'.diagnostics)
         ELSE resolver'.diagnostics = resolver.diagnostics]_vars

\* the body the statement after p is directly in is that of a method `init`
InInitializer(p) ==
  /\ OpenFunctions(p) # {}
  /\ \E i \in OpenFunctions(p) :
       /\ \A j \in OpenFunctions(p) : j <= i
       /\ Open(p)[i].ev = "MethodBegin"
       /\ Open(p)[i].name = "init"

\* C18: `return <expr>;` directly in the body of a method named init is
\* reported with ReturnFromInitializer; `return;` there and a return in any
\* other function or method is not.
C18_ReturnValueFromInitializerReported ==
  [][(VisitsStmt /\ prog'[Len(prog')].ev = "Return" /\ OpenFunctions(prog) # {}) =>
       ((ReturnFromInitializer \in Reported(resolver'.diagnostics))
          <=> (prog'[Len(prog')].value # None /\ InInitializer(prog)))]_vars

\* the ClassType of the innermost class declaration of p that is still open
EnclosingClass(p) ==
  LET classes == {i \in 1..Len(Open(p)) : Open(p)[i].ev = "ClassBegin"}
  IN IF classes = {} THEN "None"
     ELSE LET c == Open(p)[CHOOSE i \in classes : \A j \in classes : j <= i]
          IN IF c.superclass = None THEN "Class" ELSE "Subclass"

\* C19: at the end of a class declaration current_class is again that of the
\* enclosing class declaration, and a `this` in a method of an open class is
\* not reported.
C19_CurrentClassIsRestored ==
  [][(VisitsStmt /\ resolver'.st = "ok") =>
       /\ (prog'[Len(prog')].ev = "End" /\ Open(prog)[Len(Open(prog))].ev = "ClassBegin")
            => resolver'.current_class = EnclosingClass(prog')
       /\ (prog'[Len(prog')].ev = "Expression"
             /\ prog'[Len(prog')].expression.kind = "This"
             /\ EnclosingClass(prog) # "None")
            => resolver'.diagnostics = resolver.diagnostics]_vars

\* the scopes the open declarations and blocks of p have begun: one for a
\* function, a method, a block and a class, two for a class with a superclass
Begun(p) ==
  Len(Open(p))
    + Cardinality({i \in 1..Len(Open(p)) :
                     IF Open(p)[i].ev = "ClassBegin"
                       THEN Open(p)[i].superclass # None ELSE FALSE})

\* C29: after every statement the resolver has gone through without
\* panicking, the scope stack holds exactly the scopes of the blocks and
\* declarations still open (none at the end of a program), the end of a block
\* or declaration leaves the scopes under it as they were, and no statement
\* changes a scope below the innermost one.
C29_ScopeStackIsBalanced ==
  [][(VisitsStmt /\ resolver'.st = "ok") =>
       /\ Len(resolver'.scopes) = Begun(prog')
       /\ IF prog'[Len(prog')].ev \in {"End", "BlockEnd"}
            THEN /\ Len(resolver'.scopes) < Len(resolver.scopes)
                 /\ resolver'.scopes =
                      SubSeq(resolver.scopes, 1, Len(resolver'.scopes))
            ELSE /\ Len(resolver'.scopes) >= Len(resolver.scopes)
                 /\ \A i \in 1..Len(resolver.scopes) - 1 :
                      resolver'.scopes[i] = resolver.scopes[i]]_vars

\* a class with a superclass, declared in a function body, has been closed
\* after a diagnostic was reported
C29_Witness ==
  /\ res_pc = "resolve"
  /\ Len(prog) >= 3
  /\ prog[Len(prog)].ev = "End"
  /\ prog[Len(prog) - 1].ev = "ClassBegin"
  /\ prog[Len(prog) - 1].superclass # None
  /\ resolver.st = "ok"
  /\ Len(resolver.scopes) = 1
  /\ resolver.diagnostics # <<>>

(***************************************************************************)
(* lexer.rs.  A source is a sequence of characters; `current` and `start`  *)
(* count the characters before the position, so the character at          *)
(* `current` is source[current + 1].  The state of a Scanner: its fields,  *)
(* the diagnostics it gave to error(), and `st`: "scanning", "done" when   *)
(* scan_tokens has returned, "panic".                                      *)
(***************************************************************************)
Chars == {"(", ".", "!", "=", "/", "@", "\"", "a", "1", "\n"}

Sources == UNION {[1..n -> Chars] : n \in 0..MaxSource}

Scanner_new(source) ==
  [source |-> source, tokens |-> <<>>, start |-> 0, current |-> 0, line |-> 1,
   diagnostics |-> <<>>, st |-> "scanning"]

is_at_end(S) == S.current >= Len(S.source)

is_digit(ch) == ch \in {"0", "1", "2", "3", "4", "5", "6", "7", "8", "9"}

is_alpha(c) == c \in {"a", "b", "z", "A", "Z", "_"}

is_alphanumeric(c) == is_alpha(c) \/ is_digit(c)

\* '\0' is written "NUL"
peek(S) == IF is_at_end(S) THEN "NUL" ELSE S.source[S.current + 1]

peek_next(S) ==
  IF S.current + 1 >= Len(S.source) THEN "NUL" ELSE S.source[S.current + 1]

\* advance: chars().next().unwrap() panics at the end of the source
advance(S) ==
  IF S.current >= Len(S.source) THEN [S EXCEPT !.st = "panic"]
  ELSE [S EXCEPT !.current = @ + 1]

\* match_char: both `false;` are expression statements, so the next
\* character is read with unwrap() and consumed whatever it is
match_char(S, expected) ==
  IF S.current >= Len(S.source) THEN [S EXCEPT !.st = "panic"]
  ELSE [S EXCEPT !.current = @ + 1]

add_token_with_literal(S, token_type, literal) ==
  [S EXCEPT !.tokens =
     Append(@, [type |-> token_type,
                lexeme |-> SubSeq(S.source, S.start + 1, S.current),
                literal |-> literal, line |-> S.line])]

add_token(S, token_type) == add_token_with_literal(S, token_type, Nil)

scanner_error(S, message) == [S EXCEPT !.diagnostics = Append(@, message)]

\* while self.peek() != stop && !self.is_at_end() { line += 1 on '\n' when
\* counting; advance }
RECURSIVE advance_until(_, _, _)
advance_until(S, stop, counting) ==
  IF peek(S) # stop /\ ~is_at_end(S)
    THEN advance_until(advance(IF counting /\ peek(S) = "\n"
                                 THEN [S EXCEPT !.line = @ + 1] ELSE S),
                       stop, counting)
    ELSE S

\* while pred(self.peek()) { advance }
RECURSIVE advance_while(_, _)
advance_while(S, digits_only) ==
  IF (IF digits_only THEN is_digit(peek(S)) ELSE is_alphanumeric(peek(S)))
    THEN advance_while(advance(S), digits_only)
    ELSE S

string(S) ==
  LET S1 == advance_until(S, "\"", TRUE)
  IN IF is_at_end(S1) THEN scanner_error(S1, "Unterminated string.")
     ELSE LET S2 == advance(S1)
          IN add_token_with_literal(S2, "String",
               String(SubSeq(S2.source, S2.start + 2, S2.current - 1)))

number(S) ==
  LET S1 == advance_while(S, TRUE)
      S2 == IF peek(S1) = "." /\ is_digit(peek_next(S1))
              THEN advance_while(advance(S1), TRUE)
              ELSE S1
  IN add_token_with_literal(S2, "Number", SubSeq(S2.source, S2.start + 1, S2.current))

\* KEYWORDS.get(text), for the identifiers the sources can hold
identifier(S) == add_token(advance_while(S, FALSE), "Identifier")

\* one of `!`, `=`, `<`, `>`: the two-character token when match_char is true
scan_operator(S, matched, single) ==
  LET S1 == match_char(S, "=")
  IN IF S1.st = "panic" THEN S1 ELSE add_token(S1, matched)

scan_token(S) ==
  LET ch == S.source[S.current + 1]
      S1 == advance(S)
  IN CASE ch = "(" -> add_token(S1, "LeftParen")
       [] ch = "." -> add_token(S1, "Dot")
       [] ch = "!" -> scan_operator(S1, "BangEqual", "Bang")
       [] ch = "=" -> scan_operator(S1, "EqualEqual", "Equal")
       [] ch = "/" ->
            LET S2 == match_char(S1, "/")
            IN IF S2.st = "panic" THEN S2 ELSE advance_until(S2, "\n", FALSE)
       [] ch = "\n" -> [S1 EXCEPT !.line = @ + 1]
       [] ch = "\"" -> string(S1)
       [] OTHER ->
            IF is_digit(ch) THEN number(S1)
            ELSE IF is_alpha(ch) THEN identifier(S1)
            ELSE scanner_error(S1, "Unexpected character.")

ScannerInit ==
  /\ scanner \in {Scanner_new(source) : source \in Sources}
  \* the other components are not running
  /\ parser = <<>>
  /\ mode = "file"
  /\ run_pc = "idle"
  /\ HAD_ERROR = FALSE
  /\ HAD_RUNTIMES = FALSE
  /\ statements = <<>>
  /\ stmt_index = 1
  /\ executed = <<>>
  /\ runtime_errors = <<>>
  /\ interpreter = Interpreter_new
  /\ exit_code = -1
  /\ lines_read = 0
  /\ environment = <<>>
  /\ origin = <<>>
  /\ ncalls = <<>>
  /\ last = <<>>
  /\ next_id = 0
  /\ resolver = <<>>
  /\ prog = <<>>
  /\ res_pc = "idle"
  /\ exec_index = 0
  /\ evaluator_env = <<>>

\* scan_tokens: one turn of `while !self.is_at_end()`
ScanToken ==
  /\ scanner.st = "scanning"
  /\ ~is_at_end(scanner)
  /\ scanner' = scan_token([scanner EXCEPT !.start = scanner.current])

\* scan_tokens: the loop is over, Eof is pushed
ScanReturn ==
  /\ scanner.st = "scanning"
  /\ is_at_end(scanner)
  /\ scanner' = [scanner EXCEPT
                   !.tokens = Append(@, [type |-> "Eof", lexeme |-> <<>>,
                                         literal |-> Nil, line |-> scanner.line]),
                   !.st = "done"]

ScannerNext ==
  \/ ScanToken /\ UNCHANGED notScanner
  \/ ScanReturn /\ UNCHANGED notScanner

SpecScanner == ScannerInit /\ [][ScannerNext]_vars

\* C15: scan_tokens never panics, and when it has returned the token list
\* ends with Eof and holds no other Eof.
C15_ScanEndsWithOneEof ==
  /\ scanner.st # "panic"
  /\ scanner.st = "done" =>
       /\ scanner.tokens # <<>>
       /\ \A k \in 1..Len(scanner.tokens) :
            (scanner.tokens[k].type = "Eof") <=> (k = Len(scanner.tokens))

(***************************************************************************)
(* parser.rs.  The state of a Parser: `tokens`, `current` (the number of   *)
(* tokens before the cursor, so the token at the cursor is                 *)
(* tokens[current + 1]), the messages given to report() (`diagnostics`)    *)
(* and `st` ("ok" or "panic").  A rule returns the parser after it and its *)
(* Result<_, ParseError>.                                                  *)
(***************************************************************************)
Tok(type, lexeme) ==
  [type |-> type, lexeme |-> lexeme,
   literal |-> IF type \in {"Number", "String"} THEN lexeme ELSE "Nil", line |-> 1]

Eof == Tok("Eof", "")

Parser_new(tokens) ==
  [tokens |-> tokens, current |-> 0, diagnostics |-> <<>>, st |-> "ok"]

Res(P, r) == [p |-> P, r |-> r]

ParseError == Err("Parse error")

Binary(left, operator, right) ==
  [kind |-> "Binary", left |-> left, operator |-> operator, right |-> right]

Logical(left, operator, right) ==
  [kind |-> "Logical", left |-> left, operator |-> operator, right |-> right]

Call(callee, paren, arguments) ==
  [kind |-> "Call", callee |-> callee, paren |-> paren, arguments |-> arguments]

Parser_peek(P) == P.tokens[P.current + 1]

Parser_is_at_end(P) == Parser_peek(P).type = "Eof"

\* previous() panics at position 0; callers test P.current = 0 first
previous(P) == P.tokens[P.current]

\* advance: the cursor moves unless at the end, then previous() is read
Parser_advance(P) ==
  LET P1 == IF Parser_is_at_end(P) THEN P ELSE [P EXCEPT !.current = @ + 1]
  IN IF P1.current = 0 THEN [P1 EXCEPT !.st = "panic"] ELSE P1

check(P, token_type) ==
  IF Parser_is_at_end(P) THEN FALSE ELSE Parser_peek(P).type = token_type

\* Parser::error: report(line, where, message)
Parser_error(P, message) == [P EXCEPT !.diagnostics = Append(@, message)]

consume(P, token_type, message) ==
  IF check(P, token_type)
    THEN LET P1 == Parser_advance(P) IN Res(P1, Ok(previous(P1)))
    ELSE Res(Parser_error(P, message), ParseError)

\* match_tokens: `true;` is an expression statement, so every type of the
\* list is checked in turn, a matching token is consumed, and the result is
\* always false
RECURSIVE match_tokens_loop(_, _)
match_tokens_loop(P, types) ==
  IF types = <<>> THEN P
  ELSE match_tokens_loop(IF check(P, Head(types)) THEN Parser_advance(P) ELSE P,
                         Tail(types))

match_tokens(P, types) == [p |-> match_tokens_loop(P, types), matched |-> FALSE]

match_stmt(P, expected) ==
  IF check(P, expected) THEN [p |-> Parser_advance(P), matched |-> TRUE]
  ELSE [p |-> P, matched |-> FALSE]

\* primary.  The LeftParen arm calls expression() without consuming the
\* parenthesis, so it calls itself until the stack overflows.
primary(P) ==
  LET type == Parser_peek(P).type
  IN CASE type = "False" -> Res(Parser_advance(P), Ok(Literal([t |-> "bool", b |-> FALSE])))
       [] type = "True" -> Res(Parser_advance(P), Ok(Literal([t |-> "bool", b |-> TRUE])))
       [] type = "Nil" -> Res(Parser_advance(P), Ok(Literal(Nil)))
       [] type \in {"Number", "String"} ->
            Res(Parser_advance(P), Ok(Literal(Parser_peek(P).literal)))
       [] type = "LeftParen" -> Res(P, Panic("stack overflow"))
       [] type = "Identifier" ->
            IF P.current = 0
              THEN Res(P, Panic("Index error: tried to access previous token at position 0."))
              ELSE Res(P, Ok(Variable(previous(P))))
       [] OTHER -> Res(Parser_error(P, "Expected an expression."), ParseError)

\* can't have more than 255 parameters / arguments
ParamLimit == 255

\* `let x = e;`: the rest of the rule with the value of e
With(x, F(_)) == F(x)

\* `e?`: an Err (or a panic) of e ends the rule, otherwise the rule goes on
Try(x, F(_)) == IF x.r.st # "ok" THEN x ELSE F(x)

RECURSIVE expression(_)
RECURSIVE finish_call_loop(_, _)
\* finish_call: the loop over the arguments
finish_call_loop(P, arguments) ==
  Try(expression(IF Len(arguments) >= ParamLimit
                   THEN Parser_error(P, "Can't have more than 255 arguments")
                   ELSE P),
      LAMBDA arg :
        With(match_tokens(arg.p, <<"Comma">>),
             LAMBDA m :
               IF m.matched THEN finish_call_loop(m.p, Append(arguments, arg.r.v))
               ELSE Res(m.p, Ok(Append(arguments, arg.r.v)))))

RECURSIVE finish_call(_, _)
finish_call(P, callee) ==
  Try(IF ~check(P, "RightParen") THEN finish_call_loop(P, <<>>) ELSE Res(P, Ok(<<>>)),
      LAMBDA arguments :
        Try(consume(arguments.p, "RightParen", "Expect ')' after arguments."),
            LAMBDA paren : Res(paren.p, Ok(Call(callee, paren.r.v, arguments.r.v)))))

\* call: `loop { if match_tokens([LeftParen]) { finish_call(expr?) } else { break } }`
RECURSIVE call_loop(_)
call_loop(expr) ==
  IF expr.r.st = "panic" THEN expr
  ELSE With(match_tokens(expr.p, <<"LeftParen">>),
            LAMBDA m :
              IF ~m.matched THEN Res(m.p, expr.r)
              ELSE IF expr.r.st # "ok" THEN Res(m.p, expr.r)
              ELSE call_loop(finish_call(m.p, expr.r.v)))

RECURSIVE call(_)
call(P) == call_loop(primary(P))

RECURSIVE unary(_)
unary(P) ==
  With(match_tokens(P, <<"Bang", "Minus">>),
       LAMBDA m :
         IF m.matched
           THEN Try(unary(m.p),
                    LAMBDA right : Res(right.p, Ok(Unary(previous(m.p), right.r.v))))
           ELSE call(m.p))

\* The binary rules, from the loosest: each parses the next tighter rule and
\* then loops `while self.match_tokens(&[..])`.
OperatorsOf(level) ==
  CASE level = "or_expr" -> <<"Or">>
    [] level = "and_expr" -> <<"And">>
    [] level = "equality" -> <<"BangEqual", "EqualEqual">>
    [] level = "comparison" -> <<"Greater", "GreaterEqual", "Less", "LessEqual">>
    [] level = "term" -> <<"Minus", "Plus">>
    [] level = "factor" -> <<"Slash", "Star">>

Tighter(level) ==
  CASE level = "or_expr" -> "and_expr"
    [] level = "and_expr" -> "equality"
    [] level = "equality" -> "comparison"
    [] level = "comparison" -> "term"
    [] level = "term" -> "factor"
    [] level = "factor" -> "unary"

RECURSIVE rule(_, _)
RECURSIVE rule_loop(_, _, _)
rule_loop(level, P, expr) ==
  With(match_tokens(P, OperatorsOf(level)),
       LAMBDA m :
         IF ~m.matched THEN Res(m.p, Ok(expr))
         ELSE Try(rule(Tighter(level), m.p),
                  LAMBDA right :
                    rule_loop(level, right.p,
                              IF level \in {"or_expr", "and_expr"}
                                THEN Logical(expr, previous(m.p), right.r.v)
                                ELSE Binary(expr, previous(m.p), right.r.v))))

rule(level, P) ==
  IF level = "unary" THEN unary(P)
  ELSE Try(rule(Tighter(level), P), LAMBDA left : rule_loop(level, left.p, left.r.v))

factor(P) == rule("factor", P)

term(P) == rule("term", P)

RECURSIVE or_expr(_)
or_expr(P) == rule("or_expr", P)

expression(P) == or_expr(P)

RECURSIVE assignment(_)
assignment(P) ==
  Try(or_expr(P),
      LAMBDA expr :
        With(match_tokens(expr.p, <<"Equal">>),
             LAMBDA m :
               IF ~m.matched THEN Res(m.p, expr.r)
               ELSE Try(assignment(m.p),
                        LAMBDA value :
                          IF expr.r.v.kind = "Variable"
                            THEN Res(value.p, Ok(Assign(expr.r.v.name, value.r.v)))
                            ELSE Res(value.p, ParseError))))

RECURSIVE print_stmt(_)
print_stmt(P) ==
  Try(expression(P),
      LAMBDA value :
        Try(consume(value.p, "SemiColon", "Expect ';' after value."),
            LAMBDA semi : Res(semi.p, Ok([kind |-> "Print", expression |-> value.r.v]))))

\* expr_stmt after `let expr = self.expression()?`
expr_stmt_consume(expr) ==
  Try(consume(expr.p, "SemiColon", "Expect ';' after value."),
      LAMBDA semi : Res(semi.p, Ok([kind |-> "Expression", expression |-> expr.r.v])))

RECURSIVE expr_stmt(_)
expr_stmt(P) == Try(expression(P), LAMBDA expr : expr_stmt_consume(expr))

RECURSIVE return_statement(_)
return_statement(P) ==
  Try(IF ~check(P, "SemiColon") THEN expression(P) ELSE Res(P, Ok(None)),
      LAMBDA value :
        Try(consume(value.p, "SemiColon", "Expect ';' after return value."),
            LAMBDA semi : Res(semi.p, Ok([kind |-> "Return", keyword |-> previous(P),
                                          value |-> value.r.v]))))

RECURSIVE var_declaration(_)
var_declaration(P) ==
  Try(consume(P, "Identifier", "Expect variable name."),
      LAMBDA name :
        With(match_tokens(name.p, <<"Equal">>),
             LAMBDA m :
               Try(IF m.matched THEN expression(m.p) ELSE Res(m.p, Ok(None)),
                   LAMBDA init :
                     Try(consume(init.p, "SemiColon",
                                 "Expect ';' after variable declaration."),
                         LAMBDA semi :
                           Res(semi.p, Ok([kind |-> "Var", name |-> name.r.v,
                                           initializer |-> init.r.v]))))))

RECURSIVE declaration(_)
RECURSIVE block_loop(_, _)
\* block: `while check(RightBrace) && !is_at_end() { push(declaration().unwrap()) }`
block_loop(P, stmts) ==
  IF check(P, "RightBrace") /\ ~Parser_is_at_end(P)
    THEN With(declaration(P),
              LAMBDA d :
                IF d.r.st = "err" THEN Res(d.p, Panic("unwrap"))
                ELSE IF d.r.st # "ok" THEN d
                ELSE block_loop(d.p, Append(stmts, d.r.v)))
    ELSE Res(P, Ok(stmts))

\* block: the loop, then consume(RightBrace).expect(..)
RECURSIVE block(_)
block(P) ==
  Try(block_loop(P, <<>>),
      LAMBDA body :
        With(consume(body.p, "RightBrace", "Expect '}' after block."),
             LAMBDA brace :
               IF brace.r.st # "ok" THEN Res(brace.p, Panic("Expect '}' after block."))
               ELSE Res(brace.p, body.r)))

\* function: the parameter loop
RECURSIVE function_params(_, _)
function_params(P, params) ==
  IF Len(params) >= ParamLimit
    THEN Res(Parser_error(P, "Can't have more than 255 parameters."), ParseError)
  ELSE Try(consume(P, "Identifier", "Expect parameter name."),
           LAMBDA param :
             With(match_tokens(param.p, <<"Comma">>),
                  LAMBDA m :
                    IF m.matched THEN function_params(m.p, Append(params, param.r.v))
                    ELSE Res(m.p, Ok(Append(params, param.r.v)))))

\* function: after the parameter list
function_body(name, params) ==
  Try(consume(params.p, "RightParen", "Expect ')' after parameters."),
      LAMBDA close :
        Try(consume(close.p, "LeftBrace", "Expect '{' before function body."),
            LAMBDA brace :
              Try(block(brace.p),
                  LAMBDA body :
                    Res(body.p, Ok([kind |-> "Function", name |-> name,
                                    params |-> params.r.v, body |-> body.r.v])))))

RECURSIVE function(_)
function(P) ==
  Try(consume(P, "Identifier", "Expect function name."),
      LAMBDA name :
        Try(consume(name.p, "LeftParen", "Expect '(' after function name."),
            LAMBDA paren :
              Try(IF ~check(paren.p, "RightParen") THEN function_params(paren.p, <<>>)
                  ELSE Res(paren.p, Ok(<<>>)),
                  LAMBDA params : function_body(name.r.v, params))))

\* for_stmt: the tree built from the clauses and the body
for_desugar(initializer, condition, increment, body) ==
  With([kind |-> "While",
        condition |-> IF condition # None THEN condition
                      ELSE Literal([t |-> "bool", b |-> TRUE]),
        body |-> IF increment # None
                   THEN [kind |-> "Block",
                         statements |-> <<body, [kind |-> "Expression",
                                                 expression |-> increment]>>]
                   ELSE body],
       LAMBDA while :
         IF initializer # None
           THEN [kind |-> "Block", statements |-> <<initializer, while>>]
           ELSE while)

RECURSIVE statement(_)
RECURSIVE for_clauses(_, _)
\* for_stmt from `let condition` on
for_clauses(P, initializer) ==
  Try(IF ~check(P, "SemiColon") THEN expression(P) ELSE Res(P, Ok(None)),
      LAMBDA condition :
        Try(consume(condition.p, "SemiColon", "Expect ';' after loop condition."),
            LAMBDA semi :
              Try(IF ~check(semi.p, "RightParen") THEN expression(semi.p)
                  ELSE Res(semi.p, Ok(None)),
                  LAMBDA increment :
                    Try(consume(increment.p, "RightParen",
                                "Expect ')' after for clauses."),
                        LAMBDA paren :
                          Try(statement(paren.p),
                              LAMBDA body :
                                Res(body.p,
                                    Ok(for_desugar(initializer, condition.r.v,
                                                   increment.r.v, body.r.v))))))))

\* for_stmt: neither match_tokens reports a match, so the initializer is
\* always read by expr_stmt, after a `;` or a `var` at the cursor is consumed
RECURSIVE for_stmt(_)
for_stmt(P) ==
  Try(consume(P, "LeftParen", "Expect '(' after 'for'."),
      LAMBDA paren :
        With(match_tokens(paren.p, <<"SemiColon">>),
             LAMBDA semi :
               IF semi.matched THEN for_clauses(semi.p, None)
               ELSE With(match_tokens(semi.p, <<"Var">>),
                         LAMBDA var :
                           Try(IF var.matched THEN var_declaration(var.p)
                               ELSE expr_stmt(var.p),
                               LAMBDA init : for_clauses(init.p, init.r.v)))))

\* statement (the tokens parsed hold no `if` and no `while`)
statement(P) ==
  IF check(P, "Print") THEN print_stmt(match_stmt(P, "Print").p)
  ELSE IF check(P, "LeftBrace")
    THEN Try(block(match_stmt(P, "LeftBrace").p),
             LAMBDA b : Res(b.p, Ok([kind |-> "Block", statements |-> b.r.v])))
  ELSE IF check(P, "For") THEN for_stmt(match_stmt(P, "For").p)
  ELSE IF check(P, "Return") THEN return_statement(match_stmt(P, "Return").p)
  ELSE expr_stmt(P)

\* declaration: `match rule { Ok(stmt) => Ok(stmt), Err(error) => panic!(..) }`
declaration_arm(d, message) ==
  IF d.r.st = "err" THEN Res(d.p, Panic(message)) ELSE d

declaration(P) ==
  With(match_tokens(P, <<"Var">>),
       LAMBDA var :
         IF var.matched
           THEN declaration_arm(var_declaration(var.p),
                                "Error in processing a variable declaration.")
         ELSE With(match_tokens(var.p, <<"Fun">>),
                   LAMBDA fun :
                     IF fun.matched
                       THEN declaration_arm(function(fun.p),
                                            "Error in processing a function.")
                       ELSE statement(fun.p)))

\* synchronize: advance, then discard tokens up to a statement boundary.
\* synchronize_return: the loop is left with the cursor here
synchronize_return(P) ==
  IF Parser_is_at_end(P) THEN TRUE
  ELSE IF previous(P).type = "SemiColon" THEN TRUE
  ELSE Parser_peek(P).type \in {"Class", "Fun", "Var", "For", "If", "While",
                                "Print", "Return"}

\* the loop advances one token a turn, so it ends at the first cursor from
\* P.current on where it is left
synchronize_loop(P) ==
  [P EXCEPT !.current =
     CHOOSE k \in P.current .. Len(P.tokens) - 1 :
       /\ synchronize_return([P EXCEPT !.current = k])
       /\ \A j \in P.current .. k - 1 : ~synchronize_return([P EXCEPT !.current = j])]

\* synchronize without its loop
synchronize_advance_only(P) == Parser_advance(P)

synchronize(P) == synchronize_loop(Parser_advance(P))

(***************************************************************************)
(* Parser::parse on the token lists of small programs.  The state adds to  *)
(* the Parser the statements parsed so far, `pc` ("rule", "parsing",       *)
(* "done", "panic"), and for a rule applied on its own its `entry`, the    *)
(* number `n` of list entries in its input and its `result`.               *)
(***************************************************************************)
Number1 == Tok("Number", "1")

SemiColon == Tok("SemiColon", ";")

Ident(name) == Tok("Identifier", name)

TokenKinds ==
  {Tok("Print", "print"), Number1, SemiColon, Ident("a"), Tok("LeftBrace", "{"),
   Tok("RightBrace", "}"), Tok("Return", "return"), Tok("Fun", "fun"),
   Tok("Var", "var"), Tok("Minus", "-"), Tok("LeftParen", "("), Tok("Equal", "=")}

BinaryOps ==
  {Tok("Plus", "+"), Tok("Minus", "-"), Tok("Star", "*"), Tok("Slash", "/")}

\* print 1 op1 2 op2 3 ;
BinaryProgram(op1, op2) ==
  <<Tok("Print", "print"), Number1, op1, Tok("Number", "2"), op2,
    Tok("Number", "3"), SemiColon, Eof>>

\* print 1 ; target = value ;
AssignTargets == {<<Ident("a")>>, <<Ident("a"), Tok("Equal", "="), Ident("b")>>,
                  <<Ident("a"), Tok("Dot", "."), Ident("b")>>, <<Number1>>}

AssignProgram(target) ==
  <<Tok("Print", "print"), Number1, SemiColon>> \o target
    \o <<Tok("Equal", "="), Tok("Number", "2"), SemiColon, Eof>>

\* for ( initializer ; condition ; increment ) print 1 ;
\* with each clause present or absent
ForInitializers == {<<>>, <<Tok("Number", "0")>>,
                 <<Tok("Var", "var"), Ident("a"), Tok("Equal", "="), Tok("Number", "0")>>}

ForConditions == {<<>>, <<Tok("Number", "2")>>}

ForIncrements == {<<>>, <<Tok("Number", "3")>>}

ForProgram(initializer, condition, increment) ==
  <<Tok("For", "for"), Tok("LeftParen", "(")>> \o initializer \o <<SemiColon>>
    \o condition \o <<SemiColon>> \o increment
    \o <<Tok("RightParen", ")"), Tok("Print", "print"), Number1, SemiColon, Eof>>

Programs_tokens ==
  {Append(t, Eof) : t \in UNION {[1..n -> TokenKinds] : n \in 0..MaxTokens}}
    \cup {BinaryProgram(op1, op2) : op1 \in BinaryOps, op2 \in BinaryOps}
    \cup {AssignProgram(target) : target \in AssignTargets}
    \cup {ForProgram(initializer, condition, increment) :
            initializer \in ForInitializers, condition \in ForConditions,
            increment \in ForIncrements}

ParserState(tokens, current, entry, n) ==
  [tokens |-> tokens, current |-> current, diagnostics |-> <<>>, st |-> "ok",
   statements |-> <<>>, pc |-> IF entry = "parse" THEN "parsing" ELSE "rule",
   entry |-> entry, n |-> n, result |-> Ok(Nil)]

\* the Parser inside the state
ParserOf(S) ==
  [tokens |-> S.tokens, current |-> S.current, diagnostics |-> S.diagnostics,
   st |-> S.st]

\* the state after a rule has left the Parser as P
WithParser(S, P) ==
  [S EXCEPT !.current = P.current, !.diagnostics = P.diagnostics, !.st = P.st]

ParserInit ==
  /\ parser \in {ParserState(tokens, 0, "parse", 0) : tokens \in Programs_tokens}
  \* the other components are not running
  /\ scanner = <<>>
  /\ mode = "file"
  /\ run_pc = "idle"
  /\ HAD_ERROR = FALSE
  /\ HAD_RUNTIMES = FALSE
  /\ statements = <<>>
  /\ stmt_index = 1
  /\ executed = <<>>
  /\ runtime_errors = <<>>
  /\ interpreter = Interpreter_new
  /\ exit_code = -1
  /\ lines_read = 0
  /\ environment = <<>>
  /\ origin = <<>>
  /\ ncalls = <<>>
  /\ last = <<>>
  /\ next_id = 0
  /\ resolver = <<>>
  /\ prog = <<>>
  /\ res_pc = "idle"
  /\ exec_index = 0
  /\ evaluator_env = <<>>

\* the state after a declaration came back to parse as d
Parsed(S, d) ==
  IF d.r.st = "panic" \/ d.p.st = "panic"
    THEN [WithParser(S, d.p) EXCEPT !.pc = "panic", !.result = d.r]
  ELSE IF d.r.st = "ok"
    THEN [WithParser(S, d.p) EXCEPT !.pc = "parsing", !.result = d.r,
                                    !.statements = Append(@, d.r.v)]
  ELSE [WithParser(S, synchronize(d.p)) EXCEPT !.pc = "parsing", !.result = d.r]

\* parse: one turn of `while !self.is_at_end()`: declaration(), and
\* synchronize() on an Err
ParseDeclaration ==
  /\ parser.pc = "parsing"
  /\ ~Parser_is_at_end(ParserOf(parser))
  /\ \E d \in {declaration(ParserOf(parser))} :
       parser' = Parsed(parser, d)

\* parse returns the statements
ParseReturn ==
  /\ parser.pc = "parsing"
  /\ Parser_is_at_end(ParserOf(parser))
  /\ parser' = [parser EXCEPT !.pc = "done"]

ParserNext ==
  \/ ParseDeclaration /\ UNCHANGED notParser
  \/ ParseReturn /\ UNCHANGED notParser

SpecParser == ParserInit /\ [][ParserNext]_vars

(***************************************************************************)
(* Claims about the parser                                                 *)
(***************************************************************************)
Set(object, name, value) ==
  [kind |-> "Set", object |-> object, name |-> name, value |-> value]

StmtOf(kind, e) == [kind |-> kind, expression |-> e]

\* `*` and `/` bind tighter than `+` and `-`
Precedence(op) == IF op.type \in {"Star", "Slash"} THEN 2 ELSE 1

\* 1 op1 2 op2 3 by precedence, left-associative among equals
BinaryTree(op1, op2) ==
  IF Precedence(op2) > Precedence(op1)
    THEN Binary(Literal("1"), op1, Binary(Literal("2"), op2, Literal("3")))
    ELSE Binary(Binary(Literal("1"), op1, Literal("2")), op2, Literal("3"))

\* C12: parsing `print 1 op1 2 op2 3;` does not fail, and when parse has
\* returned the one statement is the print of the tree that precedence and
\* left associativity give, every operator token in it.
C12_BinaryOperatorsByPrecedence ==
  \A op1 \in BinaryOps, op2 \in BinaryOps :
     parser.tokens = BinaryProgram(op1, op2) =>
       /\ parser.pc # "panic"
       /\ parser.pc = "done" =>
            /\ parser.statements = <<StmtOf("Print", BinaryTree(op1, op2))>>
            /\ parser.diagnostics = <<>>

\* what `target = 2` is to parse to
AssignTree(target) ==
  LET two == Literal("2")
  IN CASE target = <<Ident("a")>> -> Assign(Ident("a"), two)
       [] target = <<Ident("a"), Tok("Equal", "="), Ident("b")>> ->
            Assign(Ident("a"), Assign(Ident("b"), two))
       [] target = <<Ident("a"), Tok("Dot", "."), Ident("b")>> ->
            Set(Variable(Ident("a")), Ident("b"), two)
       [] target = <<Number1>> -> Literal("1")

\* C20: parsing `print 1; target = 2;` does not fail; the second statement is
\* Assign for a variable target (nested to the right for a = b = 2), Set for a
\* property target, and for the target 1 a diagnostic is reported and the
\* statement is the left-hand expression.
C20_AssignmentTargets ==
  \A target \in AssignTargets :
     parser.tokens = AssignProgram(target) =>
       /\ parser.pc # "panic"
       /\ parser.pc = "done" =>
            /\ parser.statements = <<StmtOf("Print", Literal("1")),
                                     StmtOf("Expression", AssignTree(target))>>
            /\ (parser.diagnostics # <<>>) <=> (target = <<Number1>>)

\* the statement a present initializer is to parse to
InitializerTree(initializer) ==
  IF Len(initializer) = 1 THEN StmtOf("Expression", Literal("0"))
  ELSE [kind |-> "Var", name |-> Ident("a"), initializer |-> Literal("0")]

\* { initializer; while (condition) { print 1; increment; } }
ForTree(initializer, condition, increment) ==
  With([kind |-> "While",
        condition |-> IF condition = <<>> THEN Literal([t |-> "bool", b |-> TRUE])
                      ELSE Literal("2"),
        body |-> IF increment = <<>> THEN StmtOf("Print", Literal("1"))
                 ELSE [kind |-> "Block",
                       statements |-> <<StmtOf("Print", Literal("1")),
                                        StmtOf("Expression", Literal("3"))>>]],
       LAMBDA while :
         IF initializer = <<>> THEN while
         ELSE [kind |-> "Block",
               statements |-> <<InitializerTree(initializer), while>>])

\* C21: parsing `for (initializer; condition; increment) print 1;`, each
\* clause present or absent, does not fail, and when parse has returned the
\* one statement is the desugared tree: the While on the condition (or on
\* `true`), its body followed by the increment, in a Block after the
\* initializer when there is one, with nothing reported.
C21_ForDesugarsEveryClauseCombination ==
  \A initializer \in ForInitializers, condition \in ForConditions,
     increment \in ForIncrements :
     parser.tokens = ForProgram(initializer, condition, increment) =>
       /\ parser.pc # "panic"
       /\ parser.pc = "done" =>
            /\ Len(parser.statements) = 1
            /\ parser.diagnostics = <<>>
            /\ parser.statements[1].kind =
                 ForTree(initializer, condition, increment).kind
            /\ parser.statements[1] = ForTree(initializer, condition, increment)

\* C28: a turn of parse's loop does not recurse until the stack is exhausted,
\* and a turn after which parse goes on has moved the cursor forward, so
\* parse ends on every token list that ends with Eof.
C28_EveryTurnEndsAndConsumes ==
  [][(parser.pc = "parsing" /\ parser' # parser) =>
       /\ parser'.pc = "panic" => parser'.result # Panic("stack overflow")
       /\ parser'.pc = "parsing" => parser'.current > parser.current]_vars

\* C30: the cursor is always the position of a token of the list, and
\* previous() is never called at position 0, where it panics.
C30_CursorInRangeAndPreviousAfterFirst ==
  /\ parser.current \in 0 .. Len(parser.tokens) - 1
  /\ parser.st # "panic"
  /\ parser.result #
       Panic("Index error: tried to access previous token at position 0.")

(***************************************************************************)
(* The parser's list rules: function and finish_call                       *)
(*                                                                         *)
(* match_tokens never reports a match, so parse reaches neither rule.  The *)
(* machine enters each rule where its caller would: function in the `fun`  *)
(* arm of declaration with the cursor after `fun`, finish_call in the      *)
(* `(` arm of call with the cursor after `f (`, the call being the         *)
(* expression of an expression statement.  parse then goes on with the     *)
(* tokens that follow.                                                     *)
(***************************************************************************)
EntryCounts == {0, 1, 2, 3} \cup (ParamLimit - 1 .. ParamLimit + MaxOver)

\* n entries with a comma between them
Entries(entry, n) ==
  [i \in 1..(IF n = 0 THEN 0 ELSE 2 * n - 1) |->
     IF i % 2 = 1 THEN entry ELSE Tok("Comma", ",")]

Tails ==
  {Append(t, Eof) : t \in UNION {[1..n -> TokenKinds] : n \in 0..MaxTail}}
    \cup {<<Tok("Print", "print"), Number1, SemiColon, Eof>>}

\* fun f ( a , .. , a ) { } tail
FunctionProgram(n, tail) ==
  <<Tok("Fun", "fun"), Ident("f"), Tok("LeftParen", "(")>>
    \o Entries(Ident("a"), n)
    \o <<Tok("RightParen", ")"), Tok("LeftBrace", "{"), Tok("RightBrace", "}")>>
    \o tail

\* f ( 1 , .. , 1 ) ; tail
CallProgram(n, tail) ==
  <<Ident("f"), Tok("LeftParen", "(")>> \o Entries(Number1, n)
    \o <<Tok("RightParen", ")"), SemiColon>> \o tail

ParserRulesInit ==
  /\ parser \in
       {ParserState(FunctionProgram(n, tail), 1, "function", n) :
          n \in EntryCounts, tail \in Tails}
       \cup {ParserState(CallProgram(n, tail), 2, "finish_call", n) :
               n \in EntryCounts, tail \in Tails}
  \* the other components are not running
  /\ scanner = <<>>
  /\ mode = "file"
  /\ run_pc = "idle"
  /\ HAD_ERROR = FALSE
  /\ HAD_RUNTIMES = FALSE
  /\ statements = <<>>
  /\ stmt_index = 1
  /\ executed = <<>>
  /\ runtime_errors = <<>>
  /\ interpreter = Interpreter_new
  /\ exit_code = -1
  /\ lines_read = 0
  /\ environment = <<>>
  /\ origin = <<>>
  /\ ncalls = <<>>
  /\ last = <<>>
  /\ next_id = 0
  /\ resolver = <<>>
  /\ prog = <<>>
  /\ res_pc = "idle"
  /\ exec_index = 0
  /\ evaluator_env = <<>>

\* declaration, `fun` arm: function(), and the panic on its Err
DeclareFunction ==
  /\ parser.pc = "rule"
  /\ parser.entry = "function"
  /\ \E d \in {declaration_arm(function(ParserOf(parser)),
                                  "Error in processing a function.")} :
       parser' = Parsed(parser, d)

\* expr_stmt over a call: finish_call(callee), then consume(SemiColon); the
\* rules between call and expr_stmt match neither `)` nor `;`
CallStatement ==
  /\ parser.pc = "rule"
  /\ parser.entry = "finish_call"
  /\ \E c \in {finish_call(ParserOf(parser), Variable(Ident("f")))} :
       parser' = [Parsed(parser, Try(c, LAMBDA expr : expr_stmt_consume(expr))) EXCEPT !.result = c.r]

ParserRulesNext ==
  \/ DeclareFunction /\ UNCHANGED notParser
  \/ CallStatement /\ UNCHANGED notParser
  \/ ParseDeclaration /\ UNCHANGED notParser
  \/ ParseReturn /\ UNCHANGED notParser

SpecParserRules == ParserRulesInit /\ [][ParserRulesNext]_vars

TooMany ==
  {"Can't have more than 255 parameters.", "Can't have more than 255 arguments"}

\* the entries of the declaration or call the rule produced
EntriesOf(result) ==
  IF result.v.kind = "Function" THEN result.v.params ELSE result.v.arguments

StatementStart == {"Class", "Fun", "Var", "For", "If", "While", "Print", "Return"}

\* the declaration parse is about to call fails with an Err
DeclarationFails ==
  /\ parser.pc = "parsing"
  /\ ~Parser_is_at_end(ParserOf(parser))
  /\ declaration(ParserOf(parser)).r.st = "err"
  /\ declaration(ParserOf(parser)).p.st # "panic"

\* C22: when a declaration of parse fails and synchronize returns, the parser
\* is at Eof, or the token before the cursor is `;`, or the token at the cursor
\* starts a statement; and the cursor is past the place of the failure unless
\* that place was Eof.
C22_SynchronizeStopsAtBoundaryAfterProgress ==
  [][(DeclarationFails /\ parser' # parser) =>
       /\ \/ parser'.tokens[parser'.current + 1].type = "Eof"
          \/ parser'.tokens[parser'.current].type = "SemiColon"
          \/ parser'.tokens[parser'.current + 1].type \in StatementStart
       /\ \/ parser'.current > declaration(ParserOf(parser)).p.current
          \/ Parser_is_at_end(declaration(ParserOf(parser)).p)
       /\ parser'.current > parser.current]_vars

\* synchronize has returned before a `print`, past the token of the failure
C22_Witness ==
  /\ parser # <<>>
  /\ parser.entry = "parse"
  /\ parser.pc = "parsing"
  /\ parser.diagnostics # <<>>
  /\ parser.statements = <<>>
  /\ parser.current >= 1
  /\ Parser_peek(ParserOf(parser)).type = "Print"

(***************************************************************************)
(* Claims about the scanner's lookahead                                    *)
(***************************************************************************)
\* the token types scan_tokens returned, and the lexemes
TokenTypes(tokens) == [k \in 1..Len(tokens) |-> tokens[k].type]

Lexemes(tokens) == [k \in 1..Len(tokens) |-> tokens[k].lexeme]

\* C23: digits, `.`, digit scan as one Number token over the three characters;
\* digits, `.` and a character that is no digit scan as a Number token and a
\* Dot token.
C23_FractionIsOneNumberToken ==
  /\ scanner.source = <<"1", ".", "1">> =>
       /\ scanner.st # "panic"
       /\ scanner.st = "done" =>
            /\ TokenTypes(scanner.tokens) = <<"Number", "Eof">>
            /\ scanner.tokens[1].lexeme = <<"1", ".", "1">>
  /\ (scanner.source \in {<<"1", ".", "a">>, <<"1", ".">>} /\ scanner.st = "done") =>
       /\ SubSeq(TokenTypes(scanner.tokens), 1, 2) = <<"Number", "Dot">>
       /\ SubSeq(Lexemes(scanner.tokens), 1, 2) = <<(<<"1">>), (<<".">>)>>

\* the two-character and the one-character token of an operator character
TwoCharacter(ch) == IF ch = "!" THEN "BangEqual" ELSE "EqualEqual"

OneCharacter(ch) == IF ch = "!" THEN "Bang" ELSE "Equal"

\* C24: `!` and `=` followed by `=` scan as the two-character token; followed
\* by `a` they scan as the one-character token and `a` is the next token; `/`
\* followed by `a` is a Slash, and `//` starts a comment.
C24_OperatorLookahead ==
  scanner.st = "done" =>
    /\ \A ch \in {"!", "="} :
         /\ scanner.source = <<ch, "=">> =>
              /\ TokenTypes(scanner.tokens) = <<TwoCharacter(ch), "Eof">>
              /\ scanner.tokens[1].lexeme = <<ch, "=">>
         /\ scanner.source = <<ch, "a">> =>
              /\ TokenTypes(scanner.tokens) = <<OneCharacter(ch), "Identifier", "Eof">>
              /\ Lexemes(scanner.tokens) = <<(<<ch>>), (<<"a">>), (<<>>)>>
    /\ scanner.source = <<"/", "a">> =>
         TokenTypes(scanner.tokens) = <<"Slash", "Identifier", "Eof">>
    /\ scanner.source = <<"/", "/", "a">> => TokenTypes(scanner.tokens) = <<"Eof">>

(***************************************************************************)
(* environment.rs on its own: a chain of frames that is extended, defined  *)
(* in, read and assigned.  `last` is the operation just applied, with its  *)
(* arguments and its result.                                               *)
(***************************************************************************)
EnvNames == {"a", "x"}

EnvValues == {Number(1), Number(2)}

Distances == 0 .. MaxDepth + 1

EnvironmentInit ==
  /\ environment = new_global
  /\ last = [op |-> "new_global", r |-> Ok(Nil)]
  \* the other components are not running
  /\ origin = <<>>
  /\ ncalls = <<>>
  /\ next_id = 0
  /\ mode = "file"
  /\ run_pc = "idle"
  /\ HAD_ERROR = FALSE
  /\ HAD_RUNTIMES = FALSE
  /\ statements = <<>>
  /\ stmt_index = 1
  /\ executed = <<>>
  /\ runtime_errors = <<>>
  /\ interpreter = Interpreter_new
  /\ exit_code = -1
  /\ lines_read = 0
  /\ resolver = <<>>
  /\ prog = <<>>
  /\ res_pc = "idle"
  /\ exec_index = 0
  /\ evaluator_env = <<>>
  /\ scanner = <<>>
  /\ parser = <<>>

EnvNewEnclosed ==
  /\ last.r.st # "panic"
  /\ Len(environment) <= MaxDepth
  /\ environment' = new_enclosed(environment)
  /\ last' = [op |-> "new_enclosed", r |-> Ok(Nil)]

EnvDefine(name, value) ==
  /\ last.r.st # "panic"
  /\ environment' = define(environment, name, value)
  /\ last' = [op |-> "define", name |-> name, value |-> value, r |-> Ok(Nil)]

EnvGet(name) ==
  /\ last.r.st # "panic"
  /\ last' = [op |-> "get", name |-> name, r |-> get(environment, name)]
  /\ UNCHANGED environment

EnvAssign(name, value) ==
  /\ last.r.st # "panic"
  /\ \E r \in {assign(environment, name, value)} :
       /\ environment' = IF r.st = "ok" THEN r.v ELSE environment
       /\ last' = [op |-> "assign", name |-> name, value |-> value,
                   r |-> IF r.st = "ok" THEN Ok(Nil) ELSE r]

EnvGetAt(distance, name) ==
  /\ last.r.st # "panic"
  /\ last' = [op |-> "get_at", distance |-> distance, name |-> name,
              r |-> get_at(environment, distance, name)]
  /\ UNCHANGED environment

EnvAssignAt(distance, name, value) ==
  /\ last.r.st # "panic"
  /\ \E r \in {assign_at(environment, distance, name, value)} :
       /\ environment' = IF r.st = "ok" THEN r.v ELSE environment
       /\ last' = [op |-> "assign_at", distance |-> distance, name |-> name,
                   value |-> value, r |-> IF r.st = "ok" THEN Ok(Nil) ELSE r]

EnvironmentNext ==
  \/ EnvNewEnclosed /\ UNCHANGED <<origin, ncalls, next_id>> /\ UNCHANGED notRuntime
  \/ \E name \in EnvNames, value \in EnvValues :
       EnvDefine(name, value) /\ UNCHANGED <<origin, ncalls, next_id>>
         /\ UNCHANGED notRuntime
  \/ \E name \in EnvNames :
       EnvGet(name) /\ UNCHANGED <<origin, ncalls, next_id>> /\ UNCHANGED notRuntime
  \/ \E name \in EnvNames, value \in EnvValues :
       EnvAssign(name, value) /\ UNCHANGED <<origin, ncalls, next_id>>
         /\ UNCHANGED notRuntime
  \/ \E distance \in Distances, name \in EnvNames :
       EnvGetAt(distance, name) /\ UNCHANGED <<origin, ncalls, next_id>>
         /\ UNCHANGED notRuntime
  \/ \E distance \in Distances, name \in EnvNames, value \in EnvValues :
       EnvAssignAt(distance, name, value) /\ UNCHANGED <<origin, ncalls, next_id>>
         /\ UNCHANGED notRuntime

SpecEnvironment == EnvironmentInit /\ [][EnvironmentNext]_vars

(***************************************************************************)
(* Claims about the environment                                            *)
(***************************************************************************)
\* the frames of the chain that bind the name, nearest first by index
Binding(env, name) == {i \in 1..Len(env) : name \in DOMAIN env[i]}

Nearest(env, name) ==
  CHOOSE i \in Binding(env, name) : \A j \in Binding(env, name) : i <= j

\* C25: get returns the value of the nearest frame that binds the name and
\* assign overwrites the binding of that frame and nothing else; when no frame
\* binds the name both return "Undefined variable '<name>'." and assign leaves
\* the chain as it was.
C25_GetAndAssignUseNearestBinding ==
  [][/\ last'.op = "get" =>
          IF Binding(environment, last'.name) = {}
            THEN last'.r = Err(<<"Undefined variable '", last'.name, "'.">>)
            ELSE last'.r =
                   Ok(environment[Nearest(environment, last'.name)][last'.name])
     /\ (last'.op = "assign" /\ last' # last) =>
          IF Binding(environment, last'.name) = {}
            THEN /\ last'.r = Err(<<"Undefined variable '", last'.name, "'.">>)
                 /\ environment' = environment
            ELSE /\ last'.r = Ok(Nil)
                 /\ Len(environment') = Len(environment)
                 /\ \A i \in 1..Len(environment) :
                      /\ DOMAIN environment'[i] = DOMAIN environment[i]
                      /\ \A n \in DOMAIN environment[i] :
                           environment'[i][n] =
                             IF i = Nearest(environment, last'.name) /\ n = last'.name
                               THEN last'.value
                               ELSE environment[i][n]]_vars

\* a get has found the name past a nearer frame that lacks it
C25_Witness ==
  /\ last # <<>>
  /\ last.op = "get"
  /\ last.r.st = "ok"
  /\ Len(environment) >= 2
  /\ last.name \notin DOMAIN environment[1]

\* C26: get_at and assign_at act on the frame `distance` hops away and on no
\* other: get_at returns that frame's binding, or the name undefined when the
\* frame lacks it; assign_at sets the name in that frame and leaves every
\* other frame and every other name as it was.
C26_AtDistanceOnlyThatFrame ==
  [][/\ (last'.op = "get_at" /\ last'.distance < Len(environment)) =>
          IF last'.name \in DOMAIN environment[last'.distance + 1]
            THEN last'.r = Ok(environment[last'.distance + 1][last'.name])
            ELSE last'.r = Err(<<"Undefined variable '", last'.name, "'.">>)
     /\ (last'.op = "assign_at" /\ last' # last
           /\ last'.distance < Len(environment)) =>
          /\ last'.r = Ok(Nil)
          /\ Len(environment') = Len(environment)
          /\ \A i \in 1..Len(environment) :
               IF i = last'.distance + 1
                 THEN /\ DOMAIN environment'[i] = DOMAIN environment[i] \cup {last'.name}
                      /\ environment'[i][last'.name] = last'.value
                      /\ \A n \in DOMAIN environment[i] \ {last'.name} :
                           environment'[i][n] = environment[i][n]
                 ELSE environment'[i] = environment[i]]_vars

\* get_at has reported a name undefined that a farther frame binds
C26_Witness ==
  /\ last # <<>>
  /\ last.op = "get_at"
  /\ last.r.st = "err"
  /\ last.distance + 1 < Len(environment)
  /\ last.name \in DOMAIN environment[Len(environment)]

(***************************************************************************)
(* class.rs on its own: one instance, held by the global `o`, whose fields *)
(* are set and whose properties are read.                                  *)
(*   class Base { m() {..} n() {..} }                                      *)
(*   class Derived < Base { m() {..} }                                     *)
(*   class Plain { setX(v) {..} }                                          *)
(***************************************************************************)
Base ==
  LoxClass_new("Base", [m \in {"m", "n"} |->
                 IF m = "m" THEN Method("count") ELSE Method("bump")], None)

Derived == LoxClass_new("Derived", [m \in {"m"} |-> Method("setX")], Base)

InstanceClasses == {Base, Derived, Class("Plain")}

PropertyNames == {"m", "n", "x"}

InstanceInit ==
  /\ environment \in {define(new_global, "o", LoxInstance_new(klass)) :
                        klass \in InstanceClasses}
  /\ last = [op |-> "new", r |-> Ok(Nil)]
  \* the other components are not running
  /\ origin = <<>>
  /\ ncalls = <<>>
  /\ next_id = 0
  /\ mode = "file"
  /\ run_pc = "idle"
  /\ HAD_ERROR = FALSE
  /\ HAD_RUNTIMES = FALSE
  /\ statements = <<>>
  /\ stmt_index = 1
  /\ executed = <<>>
  /\ runtime_errors = <<>>
  /\ interpreter = Interpreter_new
  /\ exit_code = -1
  /\ lines_read = 0
  /\ resolver = <<>>
  /\ prog = <<>>
  /\ res_pc = "idle"
  /\ exec_index = 0
  /\ evaluator_env = <<>>
  /\ scanner = <<>>
  /\ parser = <<>>

\* o.name = value;
InstanceSet(name, value) ==
  /\ environment' =
       assign(environment, "o", LoxInstance_set(environment[1]["o"], name, value)).v
  /\ last' = [op |-> "set", name |-> name, r |-> Ok(Nil)]

\* o.name
InstanceGet(name) ==
  /\ last' = [op |-> "get", name |-> name,
              r |-> LoxInstance_get(environment[1]["o"], name)]
  /\ UNCHANGED environment

InstanceNext ==
  \/ \E name \in PropertyNames, value \in EnvValues :
       InstanceSet(name, value) /\ UNCHANGED <<origin, ncalls, next_id>>
         /\ UNCHANGED notRuntime
  \/ \E name \in PropertyNames :
       InstanceGet(name) /\ UNCHANGED <<origin, ncalls, next_id>>
         /\ UNCHANGED notRuntime

SpecInstance == InstanceInit /\ [][InstanceNext]_vars

(***************************************************************************)
(* Claims about property lookup                                            *)
(***************************************************************************)
\* the class and its superclasses, nearest first
RECURSIVE Chain(_)
Chain(klass) ==
  <<klass>> \o (IF klass.superclass = None THEN <<>> ELSE Chain(klass.superclass))

\* the classes of the chain that declare the method, by position
Declaring(klass, name) ==
  {i \in 1..Len(Chain(klass)) : name \in DOMAIN Chain(klass)[i].methods}

\* C27: reading a property returns the field of that name when the instance
\* has one, whatever the class chain declares; otherwise the method of that
\* name of the nearest class of the chain, bound to the instance (its closure
\* extended by one frame that defines `this` as the instance); otherwise the
\* error "Undefined property '<name>'.".
C27_FieldThenNearestMethodThenError ==
  (last # <<>> /\ last.op = "get") =>
    IF last.name \in DOMAIN environment[1]["o"].fields
      THEN last.r = Ok(environment[1]["o"].fields[last.name])
    ELSE IF Declaring(environment[1]["o"].klass, last.name) # {}
      THEN \E i \in Declaring(environment[1]["o"].klass, last.name) :
             /\ \A j \in Declaring(environment[1]["o"].klass, last.name) : i <= j
             /\ last.r.st = "ok"
             /\ last.r.v.declaration =
                  Chain(environment[1]["o"].klass)[i].methods[last.name].declaration
             /\ Tail(last.r.v.closure) =
                  Chain(environment[1]["o"].klass)[i].methods[last.name].closure
             /\ DOMAIN Head(last.r.v.closure) = {"this"}
             /\ Head(last.r.v.closure)["this"] = environment[1]["o"]
    ELSE last.r = Err(<<"Undefined property '", last.name, "'.">>)

\* a method declared by the superclass only has been read from an instance of
\* the subclass that has a field of another name
C27_Witness ==
  /\ last # <<>>
  /\ last.op = "get"
  /\ last.name = "n"
  /\ last.r.st = "ok"
  /\ environment[1]["o"].klass.name = "Derived"
  /\ "x" \in DOMAIN environment[1]["o"].fields

====
